---------------------------- MODULE Spec2Model ----------------------------
(***************************************************************************)
(* A model of the DLCF library bot (src/index.js, lines 1-1054): the       *)
(* in-memory catalog (books / fuse), the intake sessions (waitingForMeta), *)
(* the request ledger (db.requests), the per-user rate limiter and the     *)
(* asynchronous handlers that interleave at their await points.            *)
(*                                                                         *)
(* Strings are sequences of one-character strings, so that sanitising,     *)
(* trimming and splitting are computed as the code computes them.          *)
(***************************************************************************)
EXTENDS Integers, Sequences, FiniteSets, TLC

VARIABLES
    \* ---- the program's state -------------------------------------------
    rows,            \* the sheet Sheet1!A:D (remote store): a sequence of rows
    books,           \* let books (index.js:149)
    fuse,            \* let fuse (index.js:150): the records the index was built from
    waitingForMeta,  \* const waitingForMeta (index.js:151): chat -> session
    requests,        \* db.requests (index.js:863-865)
    lastRequestAt,   \* const lastRequestAt (index.js:284)
    clock,           \* Date.now()
    tasks,           \* the handler runs suspended at an await
    finished,        \* the handler run that returned last, with what it did
    nEvents,         \* number of inbound events dispatched so far
    calls,           \* the rateLimit calls made so far: user, time, result
    rejected,        \* the file_ids of the uploads answered "already in the library"
    notices,         \* the notifications shown in the administrators' chats
    proc,            \* the Node.js process: alive, errors that reached process.on
    \* ---- inputs and results of the pure functions -----------------------
    text,            \* a raw caption / message text handed to the parsers
    capOut,          \* what the captioned-upload path makes of text
    repOut,          \* what the metadata-reply path makes of text
    lookIn,          \* the arguments handed to the duplicate lookups
    lookOut          \* what the lookups returned for lookIn

sysVars == <<rows, books, fuse, waitingForMeta, requests, tasks, finished, nEvents>>
rateVars == <<lastRequestAt, clock, calls>>
lookVars == <<lookIn, lookOut>>
parseVars == <<text, capOut, repOut, lookIn, lookOut>>
vars == <<rows, books, fuse, waitingForMeta, requests, lastRequestAt, clock,
          tasks, finished, nEvents, calls, rejected, notices, proc, text, capOut, repOut,
          lookIn, lookOut>>

\* an absent value (undefined): the empty sequence; a present value x: <<x>>
Absent == <<>>

\* the process after start-up: running, no error has reached the handlers
\* of process.on('uncaughtException' / 'unhandledRejection') yet
ProcStart == [alive |-> TRUE, unhandled |-> FALSE]

-----------------------------------------------------------------------------
(* Characters and strings                                                  *)

TAB == "\t"      \* U+0009: a control character that trim() also removes
BEL == "^G"      \* U+0007: a control character that trim() does not remove
SP == " "
PIPE == "|"

\* /[\u0000-\u001F\u007F]/ (index.js:45)
ControlChars == {TAB, BEL}

\* what String.prototype.trim removes at both ends
WhiteSpace == {SP, TAB}

StripControl(s) == SelectSeq(s, LAMBDA c : c \notin ControlChars)

RECURSIVE TrimLeft(_)
TrimLeft(s) ==
    IF s = <<>> THEN <<>>
    ELSE IF Head(s) \in WhiteSpace THEN TrimLeft(Tail(s))
    ELSE s

RECURSIVE TrimRight(_)
TrimRight(s) ==
    IF s = <<>> THEN <<>>
    ELSE IF s[Len(s)] \in WhiteSpace THEN TrimRight(SubSeq(s, 1, Len(s) - 1))
    ELSE s

Trim(s) == TrimRight(TrimLeft(s))

\* String.prototype.split('|'): always at least one segment
RECURSIVE Split(_)
Split(s) ==
    IF \A i \in 1..Len(s) : s[i] # PIPE THEN <<s>>
    ELSE LET i == CHOOSE k \in 1..Len(s) :
                      s[k] = PIPE /\ \A j \in 1..(k - 1) : s[j] # PIPE
         IN  <<SubSeq(s, 1, i - 1)>> \o Split(SubSeq(s, i + 1, Len(s)))

\* parts[k] || ''  (k counted from 1)
Part(parts, k) == IF k <= Len(parts) THEN parts[k] ELSE <<>>

\* s.split('|').map(s => s.trim())
SplitTrim(s) == LET p == Split(s) IN [k \in 1..Len(p) |-> Trim(p[k])]

\* const safeText (index.js:42-46)
safeText(v) == Trim(StripControl(v))

\* a variant that also strips the control characters, as safeText does
safeFileIdStripping(v) == safeText(v)

\* const safeFileId (index.js:49-52)
safeFileId(v) == Trim(v)

-----------------------------------------------------------------------------
(* Caption / metadata parsing                                              *)

\* safeText(msg.caption || '') (index.js:787)
captionOf(msgCaption) == safeText(msgCaption)

\* index.js:798-801, on the sanitised caption
parseCaption(caption) ==
    LET parts == SplitTrim(caption)
    IN  [id |-> Part(parts, 1), title |-> Part(parts, 2), author |-> Part(parts, 3)]

\* a variant that splits msg.text as it came, control characters included
parseReplyUnsanitised(msgText) == parseCaption(msgText)

\* index.js:826-830, on msg.text
parseReply(msgText) ==
    LET meta == safeText(msgText)
        parts == SplitTrim(meta)
    IN  [id |-> Part(parts, 1), title |-> Part(parts, 2), author |-> Part(parts, 3)]

\* a variant that takes any metadata
metaAlwaysAccepted(m, file_id) == TRUE

\* if (!title || !file_id) (index.js:802 and 832): the negation
metaAccepted(m, file_id) == m.title # <<>> /\ file_id # <<>>

-----------------------------------------------------------------------------
(* Configuration, roster, media types                                      *)

\* const ADMIN_IDS (index.js:19): the roster, in the order of the env value
ADMIN_IDS == <<"a1", "a2">>

\* the identities that send events: one administrator, one ordinary user
Users == {"a1", "u1"}

\* a variant that takes every identity for an administrator
isAdminAnyone(userId) == TRUE

\* function isAdmin (index.js:156-158)
isAdmin(userId) == \E i \in 1..Len(ADMIN_IDS) : ADMIN_IDS[i] = userId

\* allowedTypes (index.js:161-173)
allowedTypes ==
    {"application/pdf", "application/msword",
     "application/vnd.openxmlformats-officedocument.wordprocessingml.document",
     "application/vnd.ms-excel",
     "application/vnd.openxmlformats-officedocument.spreadsheetml.sheet",
     "application/vnd.ms-powerpoint",
     "application/vnd.openxmlformats-officedocument.presentationml.presentation",
     "text/plain", "application/rtf", "application/epub+zip",
     "application/x-mobipocket-ebook"}

\* a variant that lets every declared type through
isValidDocumentTypeAny(mimeType) == TRUE

\* function isValidDocumentType (index.js:160-175)
isValidDocumentType(mimeType) == mimeType \in allowedTypes

-----------------------------------------------------------------------------
(* The catalog: rows of the sheet, records of a generation                 *)

\* r[k] || ''  (k counted from 1): a row may be shorter than four cells
Cell(r, k) == IF k <= Len(r) THEN r[k] ELSE <<>>

\* index.js:203-206: one row of the sheet as a record
rowRecord(r) ==
    [id |-> safeText(Cell(r, 1)), title |-> safeText(Cell(r, 2)),
     author |-> safeText(Cell(r, 3)), file_id |-> safeFileId(Cell(r, 4))]

\* if (title && file_id) (index.js:207)
rowKept(b) == b.title # <<>> /\ b.file_id # <<>>

\* index.js:199-211: const parsed, from the fetched rows (row 0 is the header)
parsedRows(rws) ==
    LET recs == [i \in 1..(Len(rws) - 1) |-> rowRecord(rws[i + 1])]
    IN  SelectSeq(recs, rowKept)

\* a variant that leaves the index as it was while the list is replaced
fuseStale(parsed, old) == old

\* fuse = new Fuse(books, ...) (index.js:213): the index holds the records
\* it was built from; old is the index before the swap
fuseAfterLoad(parsed, old) == parsed

\* books = parsed (index.js:212); old is the list before the swap
booksAfterLoad(parsed, old) == parsed

\* a variant whose failed load empties the list
booksCleared(old) == <<>>

\* the catch block of loadSheet (index.js:216-223) assigns neither books nor
\* fuse: what each is after a failed load
booksAfterLoadError(old) == old

fuseAfterLoadError(old) == old

\* appendRowToSheet (index.js:228): the row handed to the store
appendValues(id, title, author, file_id) ==
    <<safeText(id), safeText(title), safeText(author), safeFileId(file_id)>>

\* a variant that never finds a record
findNothing(bs, file_id) == <<>>

\* function findByFileId (index.js:296-298): the first record with that file_id,
\* as <<record>>, or Absent
findByFileId(bs, file_id) ==
    IF \E i \in 1..Len(bs) : bs[i].file_id = file_id
    THEN <<bs[CHOOSE i \in 1..Len(bs) :
                  bs[i].file_id = file_id /\ \A j \in 1..(i - 1) : bs[j].file_id # file_id]>>
    ELSE Absent

\* fuse.search(query) (index.js:853) as far as the handler uses it: either no
\* result or a best result results[0].item, which is a record of the index.
\* Fuse.js is a library outside the repository: which record it ranks first
\* is left open.
searchOutcomes(index) == {Absent} \cup {<<index[i]>> : i \in 1..Len(index)}

-----------------------------------------------------------------------------
(* Rate limiter                                                            *)

\* const RATE_WINDOW_MS (index.js:283)
RATE_WINDOW_MS == 1000

\* lastRequestAt.get(userId) || 0 (index.js:287)
lastOf(map, userId) == IF userId \in DOMAIN map THEN map[userId] ELSE 0

\* a variant whose window is one millisecond short
rateLimitShortWindow(map, userId, now) == ~(now - lastOf(map, userId) < RATE_WINDOW_MS - 1)

\* function rateLimit (index.js:285-291): the value returned
rateLimit(map, userId, now) == ~(now - lastOf(map, userId) < RATE_WINDOW_MS)

\* a variant that stamps the entry of the caller on a refused call too
rateLimitMapAlways(map, userId, now) ==
    [u \in DOMAIN map \cup {userId} |-> IF u = userId THEN now ELSE map[u]]

\* function rateLimit (index.js:288-289): the map after the call
rateLimitMap(map, userId, now) ==
    IF rateLimit(map, userId, now)
    THEN [u \in DOMAIN map \cup {userId} |-> IF u = userId THEN now ELSE map[u]]
    ELSE map

\* Date.now() is milliseconds since 1970: far beyond one window
ClockStart == 2 * RATE_WINDOW_MS

-----------------------------------------------------------------------------
(* Bounds and inputs of the handler model                                  *)

MaxInFlight == 2       \* handler runs suspended at the same time
MaxEvents == 2         \* inbound events, any message
MaxTicks == 1          \* windows the clock advances, any message
MaxIntakeEvents == 2   \* inbound events, the administrator's intake messages
MaxIntakeTicks == 1
MaxQueryEvents == 2    \* inbound events, text queries
MaxQueryTicks == 1

FileIds == {<<"f">>, <<"g">>}

MetaFull == <<"1", "|", "T", "|", "A">>       \* id|title|author
MetaNoTitle == <<"1", "|", "|", "A">>         \* id||author
MetaNoPipe == <<"T">>                         \* no '|' at all
TextQuery == <<"q">>
TextReload == <<"/", "r", "e", "l", "o", "a", "d">>

TextList == <<"/", "l", "i", "s", "t">>
TextAdd == <<"/", "a", "d", "d", " ", "1", "|", "T", "|", "A", "|", "g">>
TextValidate == <<"/", "v", "a", "l", "i", "d", "a", "t", "e">>
TextExport == <<"/", "e", "x", "p", "o", "r", "t">>
TextSearch == <<"/", "s", "e", "a", "r", "c", "h", " ", "q">>
TextCleanup == <<"/", "c", "l", "e", "a", "n", "u", "p">>

\* the patterns of bot.onText that take an argument: /\/add (.+)/, /\/search (.+)/
PatternAdd == <<"/", "a", "d", "d", " ">>
PatternSearch == <<"/", "s", "e", "a", "r", "c", "h", " ">>

CommandTexts == {TextList, TextReload, TextAdd, TextValidate, TextExport, TextSearch, TextCleanup}

Captions == {<<>>, MetaFull, MetaNoTitle, MetaNoPipe}
Texts == {TextQuery, MetaFull, MetaNoTitle} \cup CommandTexts

\* an inbound message: msg.chat.type, msg.from.id (= msg.chat.id in a private
\* chat), msg.document (file_id, mime_type), msg.caption, msg.text,
\* msg.reply_to_message
DocMsg(u, f, mt, c) ==
    [chatType |-> "private", from |-> u, doc |-> TRUE, file_id |-> f, mime |-> mt,
     caption |-> c, text |-> <<>>, reply |-> FALSE]

\* the administrator's uploads of an allowed type, every file and caption; of
\* another type, with and without caption; an ordinary user's upload
DocMsgs ==
    {DocMsg("a1", f, "application/pdf", c) : f \in FileIds, c \in Captions}
    \cup {DocMsg("a1", <<"g">>, mt, c) : mt \in {"image/png", "text/csv"}, c \in {<<>>, MetaFull}}
    \cup {DocMsg("u1", <<"g">>, "application/pdf", c) : c \in {<<>>, MetaFull}}

TextMsgs ==
    {[chatType |-> "private", from |-> u, doc |-> FALSE, file_id |-> <<>>, mime |-> "",
      caption |-> <<>>, text |-> tx, reply |-> rp] :
        u \in Users, tx \in Texts, rp \in BOOLEAN}

GroupMsgs ==
    {[chatType |-> "group", from |-> u, doc |-> FALSE, file_id |-> <<>>, mime |-> "",
      caption |-> <<>>, text |-> TextQuery, reply |-> FALSE] : u \in {"u1"}}

Messages == DocMsgs \cup TextMsgs \cup GroupMsgs

NoMsg ==
    [chatType |-> "private", from |-> "", doc |-> FALSE, file_id |-> <<>>, mime |-> "",
     caption |-> <<>>, text |-> <<>>, reply |-> FALSE]

Header == <<<<"i", "d">>, <<"t">>, <<"a">>, <<"f", "i", "d">>>>
InitialRows == <<Header, <<<<"0">>, <<"S">>, <<"A">>, <<"f">>>>>>

\* does s hold sub as a contiguous part: RegExp.test for a literal pattern
Contains(s, sub) ==
    \E i \in 0..(Len(s) - Len(sub)) : SubSeq(s, i + 1, i + Len(sub)) = sub

\* match[1] of a pattern that ends in (.+): what follows the first place the
\* pattern matches, Absent when nothing does
firstMatch(tx, pat) ==
    CHOOSE i \in 0..Len(tx) :
        /\ i + Len(pat) < Len(tx)
        /\ SubSeq(tx, i + 1, i + Len(pat)) = pat
        /\ \A j \in 0..(i - 1) : SubSeq(tx, j + 1, j + Len(pat)) # pat

matchArg(tx, pat) ==
    IF \E i \in 0..(Len(tx) - Len(pat) - 1) : SubSeq(tx, i + 1, i + Len(pat)) = pat
    THEN <<SubSeq(tx, firstMatch(tx, pat) + Len(pat) + 1, Len(tx))>>
    ELSE Absent

\* msg.text.startsWith('/') (index.js:847)
startsWithSlash(tx) == Len(tx) > 0 /\ tx[1] = "/"

-----------------------------------------------------------------------------
(* Handler runs                                                            *)

NoAttempts == [i \in 1..Len(ADMIN_IDS) |-> 0]

\* a handler run: ev the inbound event, h the listener, pc the await it is
\* suspended at, io the state of the awaited call; the n* fields, attempts,
\* reply and the flags record what the run has done so far; of the
\* event, afterFault whether a rejection had reached process.on before;
\* request is the object handed to notifyAdminsAboutRequest; of the
\* validation job, gen is the list it started on, stable whether every loop
\* test has found that list, failedTo the indices whose check failed
NewRun(ev, h, msg) ==
    [ev |-> ev, h |-> h, msg |-> msg, path |-> "", pc |-> "start", io |-> "",
     m |-> [id |-> <<>>, title |-> <<>>, author |-> <<>>], file_id |-> <<>>,
     best |-> <<>>, snap |-> <<>>, k |-> 0, query |-> <<>>,
     hadSession |-> FALSE, dupTitle |-> <<>>,
     nAppend |-> 0, nReload |-> 0, nLedger |-> 0, nDeliver |-> 0, nSearch |-> 0,
     attempts |-> NoAttempts, failedTo |-> {}, notified |-> FALSE,
     reply |-> "", loadRaised |-> FALSE, caught |-> FALSE,
     cur |-> <<>>, report |-> <<>>, checked |-> <<>>, disclosed |-> <<>>, notice |-> <<>>,
     before |-> <<>>, gen |-> <<>>, stable |-> TRUE, afterFault |-> FALSE,
     request |-> <<>>]

\* the state a listener's synchronous part reads and writes, threaded through
\* the listeners that one inbound event runs
Threaded(wm, req, lra) == [wm |-> wm, req |-> req, lra |-> lra, spawn |-> {}, fin |-> {}]

Return(st, run, path, reply) ==
    [st EXCEPT !.fin = @ \cup {[run EXCEPT !.path = path, !.reply = reply, !.pc = "done"]}]

Suspend(st, run, path, pc) ==
    [st EXCEPT !.spawn = @ \cup {[run EXCEPT !.path = path, !.pc = pc, !.io = "pending"]}]

\* a variant in which the push starts the list anew
ledgerReplace(ledger, rec) == <<rec>>

\* db.requests = db.requests || []; db.requests.push(req) (index.js:863-864)
ledgerPush(ledger, rec) == Append(ledger, rec)

\* the request record (index.js:856-862)
requestRecord(fromId, query, now) ==
    [id |-> <<now, fromId>>, userId |-> fromId, query |-> query, createdAt |-> now]

-----------------------------------------------------------------------------
(* bot.on('message') (index.js:770-977): the part that runs before the     *)
(* first await                                                             *)

\* a variant in which an upload without caption keeps a session that is open
uploadBranchKeepingFirst(st, run, msg, bs) ==
    LET chatId == msg.from
        file_id == safeFileId(msg.file_id)
        caption == captionOf(msg.caption)
        m == parseCaption(caption)
        dup == findByFileId(bs, file_id)
        opened == IF st.wm[chatId] # Absent THEN st.wm[chatId]
                  ELSE <<[file_id |-> file_id, mimeType |-> msg.mime]>>
    IN  IF caption # <<>>
        THEN IF ~metaAccepted(m, file_id)
             THEN Return(st, run, "caption", "captionFormat")
             ELSE IF dup # Absent
             THEN Return(st, [run EXCEPT !.file_id = file_id, !.dupTitle = dup[1].title],
                         "caption", "duplicate")
             ELSE Suspend(st, [run EXCEPT !.m = m, !.file_id = file_id], "caption", "append")
        ELSE Return([st EXCEPT !.wm[chatId] = opened],
                    [run EXCEPT !.file_id = file_id], "upload", "askMeta")

\* index.js:796-821: an administrator's upload of an allowed type
uploadBranch(st, run, msg, bs) ==
    LET chatId == msg.from
        file_id == safeFileId(msg.file_id)
        caption == captionOf(msg.caption)
        m == parseCaption(caption)
        dup == findByFileId(bs, file_id)
    IN  IF caption # <<>>
        THEN IF ~metaAccepted(m, file_id)
             THEN Return(st, run, "caption", "captionFormat")
             ELSE IF dup # Absent
             THEN Return(st, [run EXCEPT !.file_id = file_id, !.dupTitle = dup[1].title],
                         "caption", "duplicate")
             ELSE Suspend(st, [run EXCEPT !.m = m, !.file_id = file_id], "caption", "append")
        ELSE Return([st EXCEPT !.wm[chatId] = <<[file_id |-> file_id, mimeType |-> msg.mime]>>],
                    [run EXCEPT !.file_id = file_id], "upload", "askMeta")

\* a variant that refuses a reply whose session holds a known reference
replyBranchChecking(st, run, msg) ==
    LET chatId == msg.from
        m == parseReply(msg.text)
        file_id == st.wm[chatId][1].file_id
    IN  IF ~metaAccepted(m, file_id)
        THEN Return(st, run, "reply", "invalidMeta")
        ELSE IF \E k \in 1..Len(books) : books[k].file_id = file_id
        THEN Return(st, run, "reply", "duplicate")
        ELSE Suspend(st, [run EXCEPT !.m = m, !.file_id = file_id], "reply", "append")

\* a variant in which a reply that fails validation ends the session
replyBranchForgetting(st, run, msg) ==
    LET chatId == msg.from
        m == parseReply(msg.text)
        file_id == st.wm[chatId][1].file_id
    IN  IF ~metaAccepted(m, file_id)
        THEN Return([st EXCEPT !.wm[chatId] = Absent], run, "reply", "invalidMeta")
        ELSE Suspend(st, [run EXCEPT !.m = m, !.file_id = file_id], "reply", "append")

\* index.js:825-844: an administrator's reply while a session is pending
replyBranch(st, run, msg) ==
    LET chatId == msg.from
        m == parseReply(msg.text)
        file_id == st.wm[chatId][1].file_id
    IN  IF ~metaAccepted(m, file_id)
        THEN Return(st, run, "reply", "invalidMeta")
        ELSE Suspend(st, [run EXCEPT !.m = m, !.file_id = file_id], "reply", "append")

\* index.js:850-972: plain text, a search query; best is fuse.search's answer
queryBranch(st, run, msg, best, now) ==
    LET fromId == msg.from
        query == safeText(Trim(msg.text))
        r1 == [run EXCEPT !.query = query, !.nSearch = @ + 1]
    IN  IF query = <<>> THEN Return(st, run, "query", "")
        ELSE IF best = Absent
        THEN Suspend([st EXCEPT !.req = ledgerPush(@, requestRecord(fromId, query, now))],
                     [r1 EXCEPT !.nLedger = @ + 1,
                                !.request = <<requestRecord(fromId, query, now)>>],
                     "noResult", "replyUser")
        ELSE Suspend(st, [r1 EXCEPT !.best = best], "found", "sendFound")

\* index.js:770-977 up to the first await
messageHandler(st, msg, ev, best, bs, now) ==
    LET fromId == msg.from
        chatId == msg.from
        run == [NewRun(ev, "message", msg) EXCEPT !.hadSession = st.wm[chatId] # Absent]
        st1 == [st EXCEPT !.lra = rateLimitMap(@, fromId, now)]
    IN  IF msg.chatType # "private" THEN Return(st, run, "notPrivate", "")
        ELSE IF ~rateLimit(st.lra, fromId, now) THEN Return(st, run, "rateLimited", "slowDown")
        ELSE IF msg.doc /\ isAdmin(fromId)
        THEN IF ~isValidDocumentType(msg.mime)
             THEN Return(st1, run, "upload", "unsupportedType")
             ELSE uploadBranch(st1, run, msg, bs)
        ELSE IF msg.reply /\ st1.wm[chatId] # Absent /\ isAdmin(fromId) /\ msg.text # <<>>
        THEN replyBranch(st1, run, msg)
        ELSE IF msg.text # <<>> /\ startsWithSlash(msg.text)
        THEN Return(st1, run, "command", "")
        ELSE IF msg.text # <<>>
        THEN queryBranch(st1, run, msg, best, now)
        ELSE Return(st1, run, "nothing", "")

\* bot.onText(/\/reload/) (index.js:520-530) up to the await of loadSheet
reloadHandler(st, msg, ev) ==
    LET run == NewRun(ev, "reload", msg)
    IN  IF ~isAdmin(msg.from) THEN Return(st, run, "reload", "onlyAdmin")
        ELSE Suspend(st, run, "reload", "fetch")

\* seq.slice(0, n)
firstN(seq, n) == SubSeq(seq, 1, IF Len(seq) < n THEN Len(seq) ELSE n)

\* books.slice(0, 50) (index.js:515)
LIST_MAX == 50

\* bot.onText(/\/list/) (index.js:513-517): no test of the sender; the reply
\* shows the first records of the list
listHandler(st, msg, ev, bs) ==
    Return(st, [NewRun(ev, "list", msg) EXCEPT !.disclosed = firstN(bs, LIST_MAX)],
           "list", "listing")

\* bot.onText(/\/add (.+)/) (index.js:533-552) up to the await of
\* appendRowToSheet
addHandler(st, msg, ev, bs) ==
    LET run == NewRun(ev, "add", msg)
        parts == SplitTrim(Trim(matchArg(msg.text, PatternAdd)[1]))
        m == [id |-> Part(parts, 1), title |-> Part(parts, 2), author |-> Part(parts, 3)]
        file_id == Part(parts, 4)
    IN  IF ~isAdmin(msg.from) THEN Return(st, run, "add", "onlyAdmin")
        ELSE IF m.title = <<>> \/ file_id = <<>> THEN Return(st, run, "add", "usage")
        ELSE IF findByFileId(bs, file_id) # Absent THEN Return(st, run, "add", "fileIdExists")
        ELSE Suspend(st, [run EXCEPT !.m = m, !.file_id = file_id], "add", "append")

\* validateAllFileIdsAndReport (index.js:308-323) up to its first await: the
\* first record is taken from the list, or the list is empty
validationJob(ev, msg, bs) ==
    LET job == [NewRun(ev, "validateJob", msg) EXCEPT !.path = "validate", !.io = "pending",
                                                      !.gen = bs]
    IN  IF Len(bs) > 0
        THEN [job EXCEPT !.pc = "resolve", !.k = 1, !.cur = <<bs[1]>>]
        ELSE [job EXCEPT !.pc = "sendAllValid", !.k = 1]

\* bot.onText(/\/validate/) (index.js:555-561): the job is started and not
\* awaited
validateHandler(st, msg, ev, bs) ==
    LET run == NewRun(ev, "validate", msg)
    IN  IF ~isAdmin(msg.from) THEN Return(st, run, "validate", "onlyAdmin")
        ELSE LET s1 == Return(st, run, "validate", "validationStarted")
             IN  [s1 EXCEPT !.spawn = @ \cup {validationJob(ev, msg, bs)}]

\* bot.onText(/\/export/) (index.js:584-604) up to the first await: the CSV is
\* made of the whole list
exportHandler(st, msg, ev, bs) ==
    LET run == NewRun(ev, "export", msg)
    IN  IF ~isAdmin(msg.from) THEN Return(st, run, "export", "onlyAdmin")
        ELSE IF Len(bs) = 0 THEN Return(st, run, "export", "noBooks")
        ELSE Suspend(st, [run EXCEPT !.disclosed = bs], "export", "exportNotice")

\* bot.onText(/\/search (.+)/) (index.js:607-628); best is fuse.search's answer
searchHandler(st, msg, ev, best) ==
    LET run == NewRun(ev, "search", msg)
        query == safeText(Trim(matchArg(msg.text, PatternSearch)[1]))
        r1 == [run EXCEPT !.query = query, !.nSearch = @ + 1]
    IN  IF ~isAdmin(msg.from) THEN Return(st, run, "search", "onlyAdmin")
        ELSE IF best = Absent THEN Return(st, r1, "search", "noResults")
        ELSE Return(st, [r1 EXCEPT !.disclosed = best], "search", "searchResults")

\* toLowerCase, on the letters the titles of the model are written with
lowerCase(c) ==
    CASE c = "T" -> "t"
      [] c = "S" -> "s"
      [] c = "A" -> "a"
      [] c = "B" -> "b"
      [] c = "F" -> "f"
      [] c = "G" -> "g"
      [] OTHER -> c

\* book.title.toLowerCase().trim() (index.js:665)
titleKey(b) == Trim([i \in 1..Len(b.title) |-> lowerCase(b.title[i])])

\* index.js:658-671: what record i adds to the list of duplicates
dupEntries(bs, i) ==
    (IF \E j \in 1..(i - 1) : bs[j].file_id = bs[i].file_id
     THEN <<[type |-> "file_id", book |-> bs[i]]>> ELSE <<>>)
    \o (IF titleKey(bs[i]) # <<>> /\ \E j \in 1..(i - 1) : titleKey(bs[j]) = titleKey(bs[i])
        THEN <<[type |-> "title", book |-> bs[i]]>> ELSE <<>>)

RECURSIVE duplicatesUpTo(_, _)
duplicatesUpTo(bs, n) ==
    IF n = 0 THEN <<>> ELSE duplicatesUpTo(bs, n - 1) \o dupEntries(bs, n)

\* duplicates.slice(0, 10) (index.js:678)
DUP_MAX == 10

\* bot.onText(/\/cleanup/) (index.js:650-685)
cleanupHandler(st, msg, ev, bs) ==
    LET run == NewRun(ev, "cleanup", msg)
        dups == duplicatesUpTo(bs, Len(bs))
        shown == firstN(dups, DUP_MAX)
    IN  IF ~isAdmin(msg.from) THEN Return(st, run, "cleanup", "onlyAdmin")
        ELSE IF dups = <<>> THEN Return(st, run, "cleanup", "noDuplicates")
        ELSE Return(st, [run EXCEPT !.disclosed = [i \in 1..Len(shown) |-> shown[i].book]],
                    "cleanup", "duplicates")

\* bot.on('document') (index.js:689-721): an administrator's CSV file is
\* announced, looked up with bot.getFile and acknowledged; nothing is added
documentHandler(st, msg, ev) ==
    LET run == NewRun(ev, "document", msg)
    IN  IF ~msg.doc \/ ~isAdmin(msg.from) THEN Return(st, run, "document", "")
        ELSE IF msg.mime # "text/csv" THEN Return(st, run, "document", "")
        ELSE Suspend(st, run, "document", "csvNotice")

\* the listeners of bot.onText, in the order of their registration
\* (index.js:513-650), for the text of one message
textListeners(st, msg, ev, best, bs) ==
    LET s1 == IF Contains(msg.text, TextList) THEN listHandler(st, msg, ev, bs) ELSE st
        s2 == IF Contains(msg.text, TextReload) THEN reloadHandler(s1, msg, ev) ELSE s1
        s3 == IF matchArg(msg.text, PatternAdd) # Absent THEN addHandler(s2, msg, ev, bs) ELSE s2
        s4 == IF Contains(msg.text, TextValidate) THEN validateHandler(s3, msg, ev, bs) ELSE s3
        s5 == IF Contains(msg.text, TextExport) THEN exportHandler(s4, msg, ev, bs) ELSE s4
        s6 == IF matchArg(msg.text, PatternSearch) # Absent
              THEN searchHandler(s5, msg, ev, best) ELSE s5
    IN  IF Contains(msg.text, TextCleanup) THEN cleanupHandler(s6, msg, ev, bs) ELSE s6

\* the listeners one inbound message runs, in the order they were registered
listeners(st, msg, ev, best, bs, now) ==
    LET s1 == messageHandler(st, msg, ev, best, bs, now)
        s2 == IF msg.doc THEN documentHandler(s1, msg, ev) ELSE s1
    IN  IF msg.text # <<>> THEN textListeners(s2, msg, ev, best, bs) ELSE s2

-----------------------------------------------------------------------------
(* Actions                                                                 *)

\* the runs of an event that arrives when the process is in state p
arriving(runs, p) == {[t EXCEPT !.afterFault = p.unhandled] : t \in runs}

Continue(t, t2) ==
    /\ tasks' = (tasks \ {t}) \cup {t2}
    /\ finished' = {}

Finish(t, t2) ==
    /\ tasks' = tasks \ {t}
    /\ finished' = {[t2 EXCEPT !.pc = "done"]}

\* an inbound update arrives elapsed ms after the previous one: every
\* listener it triggers runs up to its first await. Date.now() is read only
\* here (index.js:286, 857, 861), so the clock advances with the arrivals.
Dispatch(msgs, maxEvents, maxTicks) ==
    /\ proc.alive
    /\ nEvents < maxEvents
    /\ Cardinality(tasks) < MaxInFlight
    /\ \E msg \in msgs, best \in searchOutcomes(fuse), elapsed \in {0, RATE_WINDOW_MS} :
         LET now == clock + elapsed
             st == listeners(Threaded(waitingForMeta, requests, lastRequestAt),
                             msg, nEvents + 1, best, books, now)
         IN  /\ now <= ClockStart + maxTicks * RATE_WINDOW_MS
             /\ clock' = now
             /\ waitingForMeta' = st.wm
             /\ requests' = st.req
             /\ lastRequestAt' = st.lra
             /\ tasks' = tasks \cup arriving(st.spawn, proc)
             /\ finished' = arriving(st.fin, proc)
             /\ rejected' = rejected \cup {t.file_id : t \in {d \in st.fin : d.reply = "duplicate"}}
    /\ nEvents' = nEvents + 1
    /\ UNCHANGED <<rows, books, fuse, calls, notices, proc, parseVars>>

\* a variant in which the appended record is also put into the list and
\* the index at once
AppendServerCaching ==
    /\ \E t \in tasks, ok \in BOOLEAN :
         /\ t.pc = "append" /\ t.io = "pending"
         /\ rows' = IF ok
                    THEN Append(rows, appendValues(t.m.id, t.m.title, t.m.author, t.file_id))
                    ELSE rows
         /\ books' = IF ok THEN parsedRows(rows') ELSE books
         /\ fuse' = books'
         /\ Continue(t, [t EXCEPT !.io = IF ok THEN "ok" ELSE "err",
                                  !.nAppend = IF ok THEN @ + 1 ELSE @])
    /\ UNCHANGED <<waitingForMeta, requests, nEvents, rateVars, rejected, notices, proc, parseVars>>

\* the store answers spreadsheets.values.append (index.js:229-234)
AppendServer ==
    /\ \E t \in tasks, ok \in BOOLEAN :
         /\ t.pc = "append" /\ t.io = "pending"
         /\ rows' = IF ok
                    THEN Append(rows, appendValues(t.m.id, t.m.title, t.m.author, t.file_id))
                    ELSE rows
         /\ Continue(t, [t EXCEPT !.io = IF ok THEN "ok" ELSE "err",
                                  !.nAppend = IF ok THEN @ + 1 ELSE @])
    /\ UNCHANGED <<books, fuse, waitingForMeta, requests, nEvents, rateVars, rejected, notices, proc, parseVars>>

\* a variant that keeps the session after the append
sessionsKept(wm, t) == wm

\* a variant in which every completed append ends the session
sessionsClosedByAnyAppend(wm, t) == [wm EXCEPT ![t.msg.from] = Absent]

\* delete waitingForMeta[chatId] (index.js:837), only on the reply path
sessionsAfterAppend(wm, t) ==
    IF t.path = "reply" THEN [wm EXCEPT ![t.msg.from] = Absent] ELSE wm

\* a variant in which the reply's session is deleted whether or not the
\* append succeeded
AppendResumeDeletingAlways ==
    /\ \E t \in tasks :
         /\ t.pc = "append" /\ t.io \in {"ok", "err"}
         /\ waitingForMeta' = sessionsAfterAppend(waitingForMeta, t)
         /\ IF t.io = "ok"
            THEN Continue(t, [t EXCEPT !.pc = "fetch", !.io = "pending"])
            ELSE Finish(t, [t EXCEPT !.reply = "failedToSave"])
    /\ UNCHANGED <<rows, books, fuse, requests, nEvents, rateVars, rejected, notices, proc, parseVars>>

\* appendRowToSheet returns or throws (index.js:235-242), and the handler goes
\* on: index.js:810-816 (caption), index.js:836-843 (reply)
AppendResume ==
    /\ \E t \in tasks :
         /\ t.pc = "append" /\ t.io \in {"ok", "err"}
         /\ IF t.io = "ok"
            THEN /\ waitingForMeta' = sessionsAfterAppend(waitingForMeta, t)
                 /\ Continue(t, [t EXCEPT !.pc = "fetch", !.io = "pending"])
            ELSE /\ waitingForMeta' = waitingForMeta
                 /\ Finish(t, [t EXCEPT !.reply = "failedToSave"])
    /\ UNCHANGED <<rows, books, fuse, requests, nEvents, rateVars, rejected, notices, proc, parseVars>>

\* the store answers spreadsheets.values.get (index.js:195-198)
FetchServer ==
    /\ \E t \in tasks, ok \in BOOLEAN :
         /\ t.pc = "fetch" /\ t.io = "pending"
         /\ Continue(t, [t EXCEPT !.io = IF ok THEN "ok" ELSE "err",
                                  !.snap = IF ok THEN rows ELSE <<>>])
    /\ UNCHANGED <<rows, books, fuse, waitingForMeta, requests, nEvents, rateVars, rejected, notices, proc, parseVars>>

\* what the caller of loadSheet sends when loadSheet returned
loadedReply(t) ==
    CASE t.h = "reload" -> "reloaded"        \* index.js:526
      [] t.path = "caption" -> "saved"       \* index.js:812
      [] t.path = "reply" -> "saved"         \* index.js:839
      [] t.h = "add" -> "saved"              \* index.js:548
      [] OTHER -> ""                         \* index.js:1014, the start-up load

\* what the caller of loadSheet sends when loadSheet threw
loadFailedReply(t) ==
    CASE t.h = "reload" -> "reloadFailed"    \* index.js:528
      [] t.path = "caption" -> "failedToSave"  \* index.js:815
      [] t.path = "reply" -> "failedToSave"    \* index.js:842
      [] t.h = "add" -> "failedToSave"         \* index.js:550
      [] OTHER -> ""                           \* index.js:1016

\* loadSheet after its await (index.js:199-223): the swap, or the rethrow
LoadResume ==
    /\ \E t \in tasks :
         /\ t.pc = "fetch" /\ t.io \in {"ok", "err"}
         /\ IF t.io = "ok"
            THEN /\ books' = booksAfterLoad(parsedRows(t.snap), books)
                 /\ fuse' = fuseAfterLoad(parsedRows(t.snap), fuse)
                 /\ Finish(t, [t EXCEPT !.nReload = @ + 1, !.reply = loadedReply(t)])
            ELSE /\ books' = booksAfterLoadError(books)
                 /\ fuse' = fuseAfterLoadError(fuse)
                 /\ Finish(t, [t EXCEPT !.loadRaised = TRUE, !.reply = loadFailedReply(t)])
    /\ UNCHANGED <<rows, waitingForMeta, requests, nEvents, rateVars, rejected, notices, proc, parseVars>>

-----------------------------------------------------------------------------
(* The transport: bot.sendMessage / bot.sendDocument answer or fail        *)

\* the object of the delivery-failure branch (index.js:964-969); the text of
\* its query holds best.file_id. Its time is new Date() read when the object
\* is built; nothing reads the value back, and the model keeps only that it
\* is the moment of the failure.
failureNotice(fromId, best) ==
    [userId |-> fromId, query |-> best.file_id, time |-> "atFailure"]

\* `handled:${request.time}:${request.userId}` (index.js:271): the segments
\* of the button's callback_data. A property the object does not have reads
\* as undefined and is written 'undefined': it is Absent here.
callbackData(request) ==
    [action |-> "handled",
     time |-> IF "time" \in DOMAIN request THEN <<request.time>> ELSE Absent,
     userId |-> IF "userId" \in DOMAIN request THEN <<request.userId>> ELSE Absent]

\* the message a successful send puts into the chat of administrator adminId,
\* with its 'Mark handled' button (index.js:269-273)
newNotice(adminId, request) ==
    [chat |-> adminId, shows |-> "request", data |-> callbackData(request)]

\* notifyAdminsAboutRequest is entered (index.js:260-267): the first send
notifyStart(t) ==
    [t EXCEPT !.pc = "notify", !.io = "pending", !.notified = TRUE, !.k = 1,
              !.attempts[1] = @ + 1]

\* a variant in which a failed send ends the loop
notifyStopsOnFailure(ok) == ok

\* the try/catch around each send (index.js:268-276): does the loop go on to
\* the next administrator after a send that succeeded (ok) or failed
notifyGoesOn(ok) == TRUE

\* await bot.sendMessage(chatId, 'No match found ...') returns or throws
\* (index.js:868-883); a throw leaves through the outer catch (index.js:974)
ReplyUserResume ==
    /\ \E t \in tasks, ok \in BOOLEAN :
         /\ t.pc = "replyUser"
         /\ IF ok
            THEN Continue(t, notifyStart([t EXCEPT !.reply = "notFound"]))
            ELSE Finish(t, [t EXCEPT !.caught = TRUE])
    /\ UNCHANGED <<rows, books, fuse, waitingForMeta, requests, nEvents, rateVars, rejected, notices, proc, parseVars>>

\* one send of the loop of notifyAdminsAboutRequest returns or throws
\* (index.js:267-277); after the last administrator the caller returns
\* (index.js:886-887, index.js:970)
NotifyResume ==
    /\ \E t \in tasks, ok \in BOOLEAN :
         /\ t.pc = "notify"
         /\ notices' = IF ok THEN Append(notices, newNotice(ADMIN_IDS[t.k], t.request[1])) ELSE notices
         /\ LET t1 == [t EXCEPT !.failedTo = IF ok THEN @ ELSE @ \cup {t.k}]
            IN  IF notifyGoesOn(ok) /\ t.k < Len(ADMIN_IDS)
                THEN Continue(t, [t1 EXCEPT !.k = @ + 1, !.attempts[t.k + 1] = @ + 1])
                ELSE Finish(t, t1)
    /\ UNCHANGED <<rows, books, fuse, waitingForMeta, requests, nEvents, rateVars, rejected, proc, parseVars>>

\* await bot.sendMessage(chatId, 'Found ...') returns or throws
\* (index.js:898-911); then bot.sendDocument is called (index.js:914)
SendFoundResume ==
    /\ \E t \in tasks, ok \in BOOLEAN :
         /\ t.pc = "sendFound"
         /\ IF ok
            THEN Continue(t, [t EXCEPT !.pc = "sendDoc", !.nDeliver = @ + 1])
            ELSE Continue(t, [t EXCEPT !.pc = "replyFail"])
    /\ UNCHANGED <<rows, books, fuse, waitingForMeta, requests, nEvents, rateVars, rejected, notices, proc, parseVars>>

\* await bot.sendDocument returns (index.js:915-948) or throws (index.js:949)
SendDocResume ==
    /\ \E t \in tasks, ok \in BOOLEAN :
         /\ t.pc = "sendDoc"
         /\ IF ok
            THEN Finish(t, [t EXCEPT !.reply = "delivered"])
            ELSE Continue(t, [t EXCEPT !.pc = "replyFail"])
    /\ UNCHANGED <<rows, books, fuse, waitingForMeta, requests, nEvents, rateVars, rejected, notices, proc, parseVars>>

\* await bot.sendMessage(chatId, 'Found ... but ...') returns or throws
\* (index.js:961); then the administrators are notified of a failureNotice
\* whose text holds best.file_id (index.js:964-970); nothing is pushed to
\* db.requests on this branch
ReplyFailResume ==
    /\ \E t \in tasks, ok \in BOOLEAN :
         /\ t.pc = "replyFail"
         /\ IF ok
            THEN Continue(t, notifyStart([t EXCEPT !.reply = "sendFailed",
                                                   !.notice = <<t.best[1].file_id>>,
                                                   !.request = <<failureNotice(t.msg.from,
                                                                               t.best[1])>>]))
            ELSE Finish(t, [t EXCEPT !.caught = TRUE])
    /\ UNCHANGED <<rows, books, fuse, waitingForMeta, requests, nEvents, rateVars, rejected, notices, proc, parseVars>>

\* bot.on('document') after its awaits (index.js:697-719): the notice, then
\* bot.getFile, then the acknowledgment; a throw of either goes to the catch
CsvResume ==
    /\ \E t \in tasks, ok \in BOOLEAN :
         /\ t.pc \in {"csvNotice", "csvGetFile"}
         /\ IF ~ok THEN Finish(t, [t EXCEPT !.caught = TRUE, !.reply = "csvFailed"])
            ELSE IF t.pc = "csvNotice" THEN Continue(t, [t EXCEPT !.pc = "csvGetFile"])
            ELSE Finish(t, [t EXCEPT !.reply = "csvReceived"])
    /\ UNCHANGED <<rows, books, fuse, waitingForMeta, requests, nEvents, rateVars, rejected, notices, proc, parseVars>>

\* /export after its awaits (index.js:597-602): the notice, then the file
ExportResume ==
    /\ \E t \in tasks, ok \in BOOLEAN :
         /\ t.pc \in {"exportNotice", "exportDoc"}
         /\ IF ~ok THEN Finish(t, [t EXCEPT !.caught = TRUE, !.reply = "exportFailed"])
            ELSE IF t.pc = "exportNotice" THEN Continue(t, [t EXCEPT !.pc = "exportDoc"])
            ELSE Finish(t, [t EXCEPT !.reply = "exported"])
    /\ UNCHANGED <<rows, books, fuse, waitingForMeta, requests, nEvents, rateVars, rejected, notices, proc, parseVars>>

-----------------------------------------------------------------------------
(* bot.on('callback_query') (index.js:724-767)                             *)

DataHandled == <<"h", "a", "n", "d", "l", "e", "d", ":", "t", ":", "u">>
DataAuthor == <<"a", "u", "t", "h", "o", "r", ":", "A">>
DataOther == <<"x">>
PrefixHandled == <<"h", "a", "n", "d", "l", "e", "d", ":">>
PrefixAuthor == <<"a", "u", "t", "h", "o", "r", ":">>

\* String.prototype.startsWith
startsWith(s, prefix) == Len(prefix) <= Len(s) /\ SubSeq(s, 1, Len(prefix)) = prefix

\* a press of an inline button: cq.from.id, cq.data, and cq.message, the
\* notice n of the administrators' chats that carries the button
CallbackQuery(u, data, n) == [NoMsg EXCEPT !.chatType = "callback", !.from = u, !.text = data,
                                           !.file_id = <<n>>]

\* books.filter(b => b.author === author) (index.js:733)
booksOfAuthor(bs, author) == SelectSeq(bs, LAMBDA b : b.author = author)

\* the listener up to its first await, or to its return
callbackHandler(st, cq, ev, bs) ==
    LET run == [NewRun(ev, "callback", cq) EXCEPT !.k = cq.file_id[1]]
        authorBooks == booksOfAuthor(bs, SubSeq(cq.text, Len(PrefixAuthor) + 1, Len(cq.text)))
    IN  IF startsWith(cq.text, PrefixAuthor)
        THEN IF authorBooks = <<>> THEN Return(st, run, "author", "noBooksForAuthor")
             ELSE Suspend(st, [run EXCEPT !.disclosed = firstN(authorBooks, 20)],
                          "author", "authorSend")
        ELSE IF ~isAdmin(cq.from) THEN Return(st, run, "denied", "onlyAdmins")
        ELSE IF startsWith(cq.text, PrefixHandled) THEN Suspend(st, run, "handled", "edit")
        ELSE Return(st, run, "unknown", "unknownAction")

\* a callback query arrives: the listener runs up to its first await
DispatchCallback(maxEvents) ==
    /\ proc.alive
    /\ nEvents < maxEvents
    /\ Cardinality(tasks) < MaxInFlight
    /\ \E u \in Users, data \in {DataHandled, DataAuthor, DataOther}, n \in 1..Len(notices) :
         LET st == callbackHandler(Threaded(waitingForMeta, requests, lastRequestAt),
                                   CallbackQuery(u, data, n), nEvents + 1, books)
         IN  /\ tasks' = tasks \cup arriving(st.spawn, proc)
             /\ finished' = arriving(st.fin, proc)
    /\ nEvents' = nEvents + 1
    /\ UNCHANGED <<rows, books, fuse, waitingForMeta, requests, rateVars, rejected, notices, proc, parseVars>>

\* a variant that puts the request back when it is acknowledged again
markToggled(ns, n) ==
    [ns EXCEPT ![n].shows = IF @ = "handled" THEN "request" ELSE "handled"]

\* bot.editMessageText('Marked handled', {chat_id, message_id}) took effect
\* (index.js:757): the notice shows the acknowledgment, its button is gone
markHandled(ns, n) == [ns EXCEPT ![n].shows = "handled"]

\* await bot.editMessageText returns or throws (index.js:756-761); then the
\* query is answered 'Marked handled' or 'Action failed'
EditResume ==
    /\ \E t \in tasks, ok \in BOOLEAN :
         /\ t.pc = "edit"
         /\ notices' = IF ok THEN markHandled(notices, t.k) ELSE notices
         /\ Finish(t, [t EXCEPT !.reply = IF ok THEN "markedHandled" ELSE "actionFailed",
                                !.before = <<notices[t.k].shows>>])
    /\ UNCHANGED <<rows, books, fuse, waitingForMeta, requests, nEvents, rateVars, rejected, proc, parseVars>>

\* await bot.sendMessage of the author's books returns or throws
\* (index.js:743-748)
AuthorResume ==
    /\ \E t \in tasks, ok \in BOOLEAN :
         /\ t.pc = "authorSend"
         /\ Finish(t, [t EXCEPT !.reply = IF ok THEN "foundBooks" ELSE "failedToLoad"])
    /\ UNCHANGED <<rows, books, fuse, waitingForMeta, requests, nEvents, rateVars, rejected, notices, proc, parseVars>>

-----------------------------------------------------------------------------
(* The validation job (index.js:308-337) after its awaits                  *)

\* a variant in which a reference that resolved is reported as well
reportWithAll(report, k, b, ok) == Append(report, [row |-> k + 1, rec |-> b])

\* index.js:315-318: the report after the check of record b at index k
\* (from 1; rowNum = i + 2 for i from 0)
reportWith(report, k, b, ok) ==
    IF ~ok THEN Append(report, [row |-> k + 1, rec |-> b]) ELSE report

\* a variant in which the job drops the record whose check failed
ResolveResumeDropping ==
    /\ \E t \in tasks, ok \in BOOLEAN :
         /\ t.pc = "resolve"
         /\ books' = IF ok THEN books ELSE SelectSeq(books, LAMBDA b : b # t.cur[1])
         /\ fuse' = books'
         /\ Continue(t, [t EXCEPT !.pc = "sleep",
                                  !.checked = Append(@, t.k),
                                  !.failedTo = IF ok THEN @ ELSE @ \cup {t.k},
                                  !.report = reportWith(@, t.k, t.cur[1], ok)])
    /\ UNCHANGED <<rows, waitingForMeta, requests, nEvents, rateVars, rejected, notices, proc, parseVars>>

\* validateFileId returns (index.js:248-255): bot.getFile answered or threw
ResolveResume ==
    /\ \E t \in tasks, ok \in BOOLEAN :
         /\ t.pc = "resolve"
         /\ Continue(t, [t EXCEPT !.pc = "sleep",
                                  !.checked = Append(@, t.k),
                                  !.failedTo = IF ok THEN @ ELSE @ \cup {t.k},
                                  !.report = reportWith(@, t.k, t.cur[1], ok)])
    /\ UNCHANGED <<rows, books, fuse, waitingForMeta, requests, nEvents, rateVars, rejected, notices, proc, parseVars>>

\* sleep(250) is over (index.js:320): i++, and the loop test reads the list
\* of that moment (index.js:312-313); after the loop, index.js:322-330
SleepResume ==
    /\ \E t \in tasks :
         /\ t.pc = "sleep"
         /\ LET t1 == [t EXCEPT !.k = @ + 1, !.stable = @ /\ books = t.gen]
            IN  IF t.k + 1 <= Len(books)
                THEN Continue(t, [t1 EXCEPT !.pc = "resolve", !.cur = <<books[t.k + 1]>>])
                ELSE IF t.report = <<>>
                THEN Continue(t, [t1 EXCEPT !.pc = "sendAllValid"])
                ELSE Continue(t, [t1 EXCEPT !.pc = "sendSummary"])
    /\ UNCHANGED <<rows, books, fuse, waitingForMeta, requests, nEvents, rateVars, rejected, notices, proc, parseVars>>

\* a variant without a listener for the event: Node.js ends the process
afterUnhandledRejectionExit(p) == [p EXCEPT !.alive = FALSE, !.unhandled = TRUE]

\* process.on('unhandledRejection') (index.js:1038-1041): logs, and the
\* process goes on
afterUnhandledRejection(p) == [p EXCEPT !.unhandled = TRUE]

\* a variant without the catch: a send of the job that throws ends the job
ValidateSendResumeUncaught ==
    /\ \E t \in tasks, ok \in BOOLEAN :
         /\ t.pc \in {"sendAllValid", "sendSummary", "sendReport", "sendJobFailed"}
         /\ proc' = IF ok THEN proc ELSE afterUnhandledRejection(proc)
         /\ IF ~ok THEN Finish(t, [t EXCEPT !.reply = ""])
            ELSE IF t.pc = "sendSummary" THEN Continue(t, [t EXCEPT !.pc = "sendReport"])
            ELSE Finish(t, [t EXCEPT !.reply = CASE t.pc = "sendAllValid" -> "allValid"
                                                 [] t.pc = "sendReport" -> "report"
                                                 [] OTHER -> "jobFailed"])
    /\ UNCHANGED <<rows, books, fuse, waitingForMeta, requests, nEvents, rateVars, rejected, notices, parseVars>>

\* the sends of the job return or throw (index.js:323, 330-331); a throw goes
\* to the catch, whose own send is awaited outside any try (index.js:335): when
\* that one throws, the promise nobody awaits (index.js:560) is rejected
ValidateSendResume ==
    /\ \E t \in tasks, ok \in BOOLEAN :
         /\ t.pc \in {"sendAllValid", "sendSummary", "sendReport", "sendJobFailed"}
         /\ IF t.pc = "sendJobFailed"
            THEN /\ Finish(t, [t EXCEPT !.reply = IF ok THEN "jobFailed" ELSE ""])
                 /\ proc' = IF ok THEN proc ELSE afterUnhandledRejection(proc)
            ELSE /\ proc' = proc
                 /\ IF ~ok THEN Continue(t, [t EXCEPT !.pc = "sendJobFailed", !.caught = TRUE])
                    ELSE IF t.pc = "sendSummary" THEN Continue(t, [t EXCEPT !.pc = "sendReport"])
                    ELSE Finish(t, [t EXCEPT !.reply = IF t.pc = "sendAllValid"
                                                       THEN "allValid" ELSE "report"])
    /\ UNCHANGED <<rows, books, fuse, waitingForMeta, requests, nEvents, rateVars, rejected, notices, parseVars>>

\* the replies that are awaited inside a try; every other reply is a
\* bot.sendMessage or bot.answerCallbackQuery whose promise nobody awaits
\* (index.js:526, 548) or that the listener returns (index.js:780, 794, 752)
AwaitedReplies ==
    {"", "delivered", "notFound", "sendFailed", "allValid", "report", "jobFailed", "exported"}

\* such a send is rejected after the listener has returned: the rejection
\* reaches process.on('unhandledRejection')
SendRejected ==
    /\ \E t \in finished : t.reply \notin AwaitedReplies
    /\ proc' = afterUnhandledRejection(proc)
    /\ finished' = {}
    /\ UNCHANGED <<rows, books, fuse, waitingForMeta, requests, tasks, nEvents, rateVars, rejected, notices, parseVars>>

-----------------------------------------------------------------------------
(* The handler model                                                       *)

\* app.listen's callback awaits loadSheet (index.js:1013) while updates
\* already arrive
StartupRun == [NewRun(0, "startup", NoMsg) EXCEPT !.pc = "fetch", !.io = "pending"]

ParseIdle ==
    /\ text = <<>>
    /\ capOut = <<>>
    /\ repOut = <<>>
    /\ lookIn = <<>>
    /\ lookOut = <<>>

Init ==
    /\ rows = InitialRows
    /\ books = <<>>
    /\ fuse = <<>>
    /\ waitingForMeta = [u \in Users |-> Absent]
    /\ requests = <<>>
    /\ lastRequestAt = <<>>
    /\ clock = ClockStart
    /\ tasks = {StartupRun}
    /\ finished = {}
    /\ nEvents = 0
    /\ calls = <<>>
    /\ rejected = {}
    /\ notices = <<>>
    /\ proc = ProcStart
    /\ ParseIdle

DispatchAny == Dispatch(Messages, MaxEvents, MaxTicks)

Next ==
    \/ DispatchAny
    \/ AppendServer
    \/ AppendResume
    \/ FetchServer
    \/ LoadResume
    \/ ReplyUserResume
    \/ NotifyResume
    \/ SendFoundResume
    \/ SendDocResume
    \/ ReplyFailResume
    \/ CsvResume
    \/ ExportResume
    \/ ResolveResume
    \/ SleepResume
    \/ ValidateSendResume

Spec == Init /\ [][Next]_vars

\* the administrator's traffic: uploads of an allowed type with caption (of
\* f and of g) and without (of g), replies that carry metadata, and /reload
IntakeMsgs ==
    {msg \in Messages :
        /\ msg.from = "a1"
        /\ IF msg.doc
           THEN /\ msg.mime = "application/pdf"
                /\ msg.caption = MetaNoTitle => msg.file_id = <<"f">>
                /\ msg.caption = MetaNoPipe => msg.file_id = <<"g">>
                /\ msg.caption = <<>> => msg.file_id = <<"g">>
           ELSE \/ msg.reply /\ msg.text \in {MetaFull, MetaNoTitle}
                \/ ~msg.reply /\ msg.text = TextReload}

DispatchIntake == Dispatch(IntakeMsgs, MaxIntakeEvents, MaxIntakeTicks)

NextIntake ==
    \/ DispatchIntake
    \/ AppendServer
    \/ AppendResume
    \/ FetchServer
    \/ LoadResume
    \/ ReplyUserResume
    \/ NotifyResume
    \/ SendFoundResume
    \/ SendDocResume
    \/ ReplyFailResume

\* the start-up load (index.js:1013) has returned: the catalog is loaded, or
\* still empty when the load failed; the administrator has either sent
\* nothing yet or uploaded f without caption one window ago, which left a
\* session pending (index.js:819) and an entry in lastRequestAt
InitLoaded ==
    /\ rows = InitialRows
    /\ books \in {parsedRows(InitialRows), <<>>}
    /\ fuse = books
    /\ \E pending \in {Absent, <<[file_id |-> <<"f">>, mimeType |-> "application/pdf"]>>} :
          /\ waitingForMeta = [u \in Users |-> IF u = "a1" THEN pending ELSE Absent]
          /\ lastRequestAt = IF pending = Absent THEN <<>>
                             ELSE [u \in {"a1"} |-> ClockStart - RATE_WINDOW_MS]
    /\ requests = <<>>
    /\ clock = ClockStart
    /\ tasks = {}
    /\ finished = {}
    /\ nEvents = 0
    /\ calls = <<>>
    /\ rejected = {}
    /\ notices = <<>>
    /\ proc = ProcStart
    /\ ParseIdle

SpecIntake == InitLoaded /\ [][NextIntake]_vars

\* text queries of both users
QueryMsgs == {msg \in Messages : ~msg.doc /\ ~msg.reply /\ msg.text = TextQuery}

DispatchQuery == Dispatch(QueryMsgs, MaxQueryEvents, MaxQueryTicks)

NextQuery ==
    \/ DispatchQuery
    \/ FetchServer
    \/ LoadResume
    \/ ReplyUserResume
    \/ NotifyResume
    \/ SendFoundResume
    \/ SendDocResume
    \/ ReplyFailResume

SpecQuery == Init /\ [][NextQuery]_vars

\* the administrator's uploads of g: of an allowed type and of two others,
\* with and without caption
UploadMsgs == {msg \in DocMsgs : msg.from = "a1" /\ msg.file_id = <<"g">>
                                  /\ msg.caption \in {<<>>, MetaFull}}

MaxUploadEvents == 2   \* inbound events, the administrator's uploads
MaxUploadTicks == 1

DispatchUpload == Dispatch(UploadMsgs, MaxUploadEvents, MaxUploadTicks)

NextUpload ==
    \/ DispatchUpload
    \/ AppendServer
    \/ AppendResume
    \/ FetchServer
    \/ LoadResume
    \/ CsvResume

SpecUpload == InitLoaded /\ [][NextUpload]_vars

\* a zero-result query of u1 has been recorded and both administrators have
\* been notified of it (index.js:856-887); nothing is in flight
InitAck ==
    /\ rows = InitialRows
    /\ books = parsedRows(InitialRows)
    /\ fuse = books
    /\ waitingForMeta = [u \in Users |-> Absent]
    /\ requests = <<requestRecord("u1", TextQuery, ClockStart)>>
    /\ lastRequestAt = [u \in {"u1"} |-> ClockStart]
    /\ clock = ClockStart
    /\ tasks = {}
    /\ finished = {}
    /\ nEvents = 0
    /\ calls = <<>>
    /\ rejected = {}
    /\ notices = [i \in 1..Len(ADMIN_IDS) |->
                      newNotice(ADMIN_IDS[i], requestRecord("u1", TextQuery, ClockStart))]
    /\ proc = ProcStart
    /\ ParseIdle

MaxAckEvents == 2   \* inbound events, presses of inline buttons

DispatchAck == DispatchCallback(MaxAckEvents)

NextAck ==
    \/ DispatchAck
    \/ EditResume
    \/ AuthorResume

SpecAck == InitAck /\ [][NextAck]_vars

\* the sheet with a second row, and the lists the bot may hold of it: the
\* generation of both rows, the one loaded before the second row was
\* written, or none
ValidateRows == Append(InitialRows, <<<<"1">>, <<"T">>, <<"A">>, <<"g">>>>)

InitValidate ==
    /\ rows = ValidateRows
    /\ books \in {parsedRows(ValidateRows), parsedRows(InitialRows), <<>>}
    /\ fuse = books
    /\ waitingForMeta = [u \in Users |-> Absent]
    /\ requests = <<>>
    /\ lastRequestAt = <<>>
    /\ clock = ClockStart
    /\ tasks = {}
    /\ finished = {}
    /\ nEvents = 0
    /\ calls = <<>>
    /\ rejected = {}
    /\ notices = <<>>
    /\ proc = ProcStart
    /\ ParseIdle

\* the administrator starts the job and reloads the catalog
ValidateMsgs ==
    {msg \in TextMsgs : msg.from = "a1" /\ ~msg.reply /\ msg.text \in {TextValidate, TextReload}}

MaxValidateEvents == 2   \* inbound events, /validate and /reload
MaxValidateTicks == 1

DispatchValidate == Dispatch(ValidateMsgs, MaxValidateEvents, MaxValidateTicks)

NextValidate ==
    \/ DispatchValidate
    \/ FetchServer
    \/ LoadResume
    \/ ResolveResume
    \/ SleepResume
    \/ ValidateSendResume

SpecValidate == InitValidate /\ [][NextValidate]_vars

\* the transport answers every call of the job (bot.getFile, bot.sendMessage,
\* bot.sendDocument: index.js:249, 323, 330, 331, 335) and the timer of
\* sleep(250) fires (index.js:320), so a job that waits is resumed
ValidateFairness ==
    /\ WF_vars(ResolveResume)
    /\ WF_vars(SleepResume)
    /\ WF_vars(ValidateSendResume)

\* the job's runs start on the list of one record while the store holds a
\* second row, which a reload makes visible during the loop
InitJob == InitValidate /\ books = parsedRows(InitialRows)

SpecValidateFair == InitJob /\ [][NextValidate]_vars /\ ValidateFairness

\* traffic of every kind: a user's query, the administrator's /add (an
\* append and a reload) and /validate, and presses of inline buttons
ServiceMsgs ==
    {msg \in TextMsgs : ~msg.reply /\ msg.from = "u1" /\ msg.text = TextQuery}
    \cup {msg \in TextMsgs : ~msg.reply /\ msg.from = "a1"
                              /\ msg.text \in {TextAdd, TextValidate}}

MaxServiceEvents == 2   \* inbound events of any kind
MaxServiceTicks == 1

DispatchService == Dispatch(ServiceMsgs, MaxServiceEvents, MaxServiceTicks)

DispatchPress == DispatchCallback(MaxServiceEvents)

NextService ==
    \/ DispatchService
    \/ DispatchPress
    \/ AppendServer
    \/ AppendResume
    \/ FetchServer
    \/ LoadResume
    \/ ReplyUserResume
    \/ NotifyResume
    \/ SendFoundResume
    \/ SendDocResume
    \/ ReplyFailResume
    \/ ResolveResume
    \/ SleepResume
    \/ ValidateSendResume
    \/ EditResume
    \/ AuthorResume
    \/ SendRejected

SpecService == InitAck /\ [][NextService]_vars

\* the command texts, sent by the administrator and by an ordinary user
CommandMsgs == {msg \in TextMsgs : msg.text \in CommandTexts /\ ~msg.reply}

MaxCommandEvents == 2   \* inbound events, command texts
MaxCommandTicks == 1

DispatchCommand == Dispatch(CommandMsgs, MaxCommandEvents, MaxCommandTicks)

NextCommand ==
    \/ DispatchCommand
    \/ AppendServer
    \/ AppendResume
    \/ FetchServer
    \/ LoadResume
    \/ ExportResume
    \/ ResolveResume
    \/ SleepResume
    \/ ValidateSendResume

SpecCommand == InitLoaded /\ [][NextCommand]_vars

\* the session of f is pending in the administrator's chat since one window
\* ago (index.js:819), and the administrators' chat holds one notice
InitPending ==
    /\ rows = InitialRows
    /\ books = parsedRows(InitialRows)
    /\ fuse = books
    /\ waitingForMeta = [u \in Users |-> IF u = "a1"
                                          THEN <<[file_id |-> <<"f">>, mimeType |-> "application/pdf"]>>
                                          ELSE Absent]
    /\ requests = <<>>
    /\ lastRequestAt = [u \in {"a1"} |-> ClockStart - RATE_WINDOW_MS]
    /\ clock = ClockStart
    /\ tasks = {}
    /\ finished = {}
    /\ nEvents = 0
    /\ calls = <<>>
    /\ rejected = {}
    /\ notices = <<newNotice("a1", requestRecord("u1", TextQuery, ClockStart - RATE_WINDOW_MS))>>
    /\ proc = ProcStart
    /\ ParseIdle

\* what may arrive while the session is pending: the administrator's query,
\* a command, replies with and without a title, an upload of another type,
\* a captioned upload of a known and of a new document and an upload
\* without caption; an upload without caption in the conversation of an
\* ordinary user
PendingMsgs ==
    {msg \in TextMsgs : msg.from = "a1" /\ ~msg.reply /\ msg.text \in {TextQuery, TextList}}
    \cup {msg \in TextMsgs : msg.from = "a1" /\ msg.reply /\ msg.text \in {MetaFull, MetaNoTitle}}
    \cup {DocMsg("a1", <<"g">>, "image/png", <<>>),
          DocMsg("a1", <<"f">>, "application/pdf", MetaFull),
          DocMsg("a1", <<"g">>, "application/pdf", MetaFull),
          DocMsg("a1", <<"g">>, "application/pdf", <<>>)}
    \cup {DocMsg("u1", <<"g">>, "application/pdf", <<>>)}

MaxPendingEvents == 2   \* inbound events while the session is pending
MaxPendingTicks == 1

DispatchPending == Dispatch(PendingMsgs, MaxPendingEvents, MaxPendingTicks)

DispatchPendingPress == DispatchCallback(MaxPendingEvents)

NextPending ==
    \/ DispatchPending
    \/ DispatchPendingPress
    \/ AppendServer
    \/ AppendResume
    \/ FetchServer
    \/ LoadResume
    \/ ReplyUserResume
    \/ NotifyResume
    \/ SendFoundResume
    \/ SendDocResume
    \/ ReplyFailResume
    \/ EditResume
    \/ AuthorResume

SpecPending == InitPending /\ [][NextPending]_vars

-----------------------------------------------------------------------------
(* The duplicate lookups alone (index.js:296-303)                          *)

\* String.prototype.toLowerCase
toLowerCase(str) == [i \in 1..Len(str) |-> lowerCase(str[i])]

\* Array.prototype.find over the indices that satisfy the test: the first
\* element, as <<element>>, or Absent
firstAt(seq, hits) ==
    IF hits = {} THEN Absent ELSE <<seq[CHOOSE i \in hits : \A j \in hits : i <= j]>>

\* a variant that compares the letters as they are written
findByTitleOrAuthorExact(bs, title, author) ==
    firstAt(bs, {i \in 1..Len(bs) :
                    \/ bs[i].title # <<>> /\ bs[i].title = safeText(title)
                    \/ bs[i].author # <<>> /\ bs[i].author = safeText(author)})

\* function findByTitleOrAuthor (index.js:299-303)
findByTitleOrAuthor(bs, title, author) ==
    LET t == toLowerCase(safeText(title))
        a == toLowerCase(safeText(author))
    IN  firstAt(bs, {i \in 1..Len(bs) :
                        \/ bs[i].title # <<>> /\ toLowerCase(bs[i].title) = t
                        \/ bs[i].author # <<>> /\ toLowerCase(bs[i].author) = a})

Book(id, title, author, file_id) ==
    [id |-> id, title |-> title, author |-> author, file_id |-> file_id]

\* generations with letters of both cases, equal titles and an empty author
LookupBooks ==
    {<<>>,
     <<Book(<<"0">>, <<"S">>, <<"A">>, <<"f">>)>>,
     <<Book(<<"0">>, <<"S">>, <<>>, <<"f">>), Book(<<"1">>, <<"T">>, <<"B">>, <<"G">>)>>,
     <<Book(<<"0">>, <<"t">>, <<"a">>, <<"g">>), Book(<<"1">>, <<"T">>, <<"A">>, <<"G">>)>>}

LookupRefs == {<<"f">>, <<"F">>, <<"g">>, <<"G">>}
LookupTitles == {<<"T">>, <<"t">>, <<" ", "t">>, <<"S">>, <<>>}
LookupAuthors == {<<"A">>, <<"a">>, <<"B">>, <<>>}

InitLookup ==
    /\ rows = <<>>
    /\ books \in LookupBooks
    /\ fuse = books
    /\ waitingForMeta = [u \in Users |-> Absent]
    /\ requests = <<>>
    /\ lastRequestAt = <<>>
    /\ clock = ClockStart
    /\ tasks = {}
    /\ finished = {}
    /\ nEvents = 0
    /\ calls = <<>>
    /\ rejected = {}
    /\ notices = <<>>
    /\ proc = ProcStart
    /\ text = <<>>
    /\ capOut = <<>>
    /\ repOut = <<>>
    /\ lookIn \in [file_id : LookupRefs, title : LookupTitles, author : LookupAuthors]
    /\ lookOut = [byFileId |-> <<>>, byTitleOrAuthor |-> <<>>]

\* findByFileId(file_id) is called on the current generation
LookupByFileId ==
    /\ lookOut.byFileId = <<>>
    /\ lookOut' = [lookOut EXCEPT !.byFileId = <<findByFileId(books, lookIn.file_id)>>]
    /\ UNCHANGED <<lookIn, text, capOut, repOut, sysVars, rateVars, rejected, notices, proc>>

\* findByTitleOrAuthor(title, author) is called on the current generation
LookupByTitleOrAuthor ==
    /\ lookOut.byTitleOrAuthor = <<>>
    /\ lookOut' = [lookOut EXCEPT
                      !.byTitleOrAuthor = <<findByTitleOrAuthor(books, lookIn.title, lookIn.author)>>]
    /\ UNCHANGED <<lookIn, text, capOut, repOut, sysVars, rateVars, rejected, notices, proc>>

NextLookup ==
    \/ LookupByFileId
    \/ LookupByTitleOrAuthor

SpecLookup == InitLookup /\ [][NextLookup]_vars

-----------------------------------------------------------------------------
(* The rate limiter alone: calls of rateLimit under a clock that never     *)
(* runs backwards                                                          *)

MaxCalls == 4        \* calls of rateLimit per run
MaxRateTicks == 3    \* clock steps per run

\* the clock steps: within a window, one millisecond short of it, a full one
RateSteps == {1, RATE_WINDOW_MS - 1, RATE_WINDOW_MS}

IdleHandlers ==
    /\ rows = <<>>
    /\ books = <<>>
    /\ fuse = <<>>
    /\ waitingForMeta = [u \in Users |-> Absent]
    /\ requests = <<>>
    /\ tasks = {}
    /\ finished = {}

InitRate ==
    /\ IdleHandlers
    /\ nEvents = 0
    /\ lastRequestAt = <<>>
    /\ clock = ClockStart
    /\ calls = <<>>
    /\ rejected = {}
    /\ notices = <<>>
    /\ proc = ProcStart
    /\ ParseIdle

\* rateLimit(userId) is called (index.js:285-291)
RateCall ==
    /\ Len(calls) < MaxCalls
    /\ \E u \in Users :
         /\ calls' = Append(calls, [user |-> u, at |-> clock,
                                    ok |-> rateLimit(lastRequestAt, u, clock)])
         /\ lastRequestAt' = rateLimitMap(lastRequestAt, u, clock)
    /\ UNCHANGED <<clock, nEvents, sysVars, rejected, notices, proc, parseVars>>

\* nEvents counts the clock steps here
RateTick ==
    /\ nEvents < MaxRateTicks
    /\ \E d \in RateSteps : clock' = clock + d
    /\ nEvents' = nEvents + 1
    /\ UNCHANGED <<lastRequestAt, calls, rows, books, fuse, waitingForMeta, requests,
                   tasks, finished, rejected, notices, proc, parseVars>>

NextRate ==
    \/ RateCall
    \/ RateTick

SpecRate == InitRate /\ [][NextRate]_vars

-----------------------------------------------------------------------------
(* The parsers alone: a raw text handed to both intake paths               *)

MaxTextLen == 4

ParseChars == {"a", SP, PIPE, BEL}

RECURSIVE SeqsUpTo(_, _)
SeqsUpTo(S, n) ==
    IF n = 0 THEN {<<>>}
    ELSE LET shorter == SeqsUpTo(S, n - 1)
         IN  shorter \cup {Append(q, c) : q \in {x \in shorter : Len(x) = n - 1}, c \in S}

\* "007|Great Book|Jane Doe" and "|Great Book|"
Example1 ==
    <<"0", "0", "7", "|", "G", "r", "e", "a", "t", " ", "B", "o", "o", "k", "|",
      "J", "a", "n", "e", " ", "D", "o", "e">>
Example2 == <<"|", "G", "r", "e", "a", "t", " ", "B", "o", "o", "k", "|">>
\* "007||Jane Doe", and extra segments: " 1 | T | A | x | y "
Example3 == <<"0", "0", "7", "|", "|", "J", "a", "n", "e", " ", "D", "o", "e">>
Example4 ==
    <<" ", "1", " ", "|", TAB, "T", " ", "|", " ", "A", BEL, "|", "x", "|", "y", " ">>

ParseInputs ==
    SeqsUpTo(ParseChars, MaxTextLen) \cup {Example1, Example2, Example3, Example4}

InitParse ==
    /\ IdleHandlers
    /\ nEvents = 0
    /\ lastRequestAt = <<>>
    /\ clock = ClockStart
    /\ calls = <<>>
    /\ rejected = {}
    /\ notices = <<>>
    /\ proc = ProcStart
    /\ text \in ParseInputs
    /\ capOut = <<>>
    /\ repOut = <<>>
    /\ lookIn = <<>>
    /\ lookOut = <<>>

\* the captioned-upload path parses text as msg.caption (index.js:787-802);
\* an empty caption after sanitising is no caption (index.js:796, 817)
ParseAsCaption ==
    /\ capOut = <<>>
    /\ capOut' = IF captionOf(text) = <<>>
                 THEN <<[captioned |-> FALSE, m |-> parseCaption(<<>>), accepted |-> FALSE]>>
                 ELSE <<[captioned |-> TRUE, m |-> parseCaption(captionOf(text)),
                         accepted |-> metaAccepted(parseCaption(captionOf(text)), <<"f">>)]>>
    /\ UNCHANGED <<text, repOut, lookVars, sysVars, rateVars, rejected, notices, proc>>

\* the metadata-reply path parses text as msg.text (index.js:826-834)
ParseAsReply ==
    /\ repOut = <<>>
    /\ text # <<>>
    /\ repOut' = <<[m |-> parseReply(text), accepted |-> metaAccepted(parseReply(text), <<"f">>)]>>
    /\ UNCHANGED <<text, capOut, lookVars, sysVars, rateVars, rejected, notices, proc>>

NextParse ==
    \/ ParseAsCaption
    \/ ParseAsReply

SpecParse == InitParse /\ [][NextParse]_vars

-----------------------------------------------------------------------------
(* loadSheet alone: the start-up load over raw sheets                      *)

MaxDataRows == 2     \* rows after the header row

\* raw cells of the title column
TitleCells == {<<>>, <<"t">>, <<SP, "t", TAB>>, <<BEL>>, <<"t", BEL, "u">>}

\* raw cells of the file_id column
FileCells == {<<>>, <<"f">>, <<SP, "f", SP>>, <<BEL>>, <<"f", BEL>>, <<SP, TAB>>}

\* raw cells of the id and author columns
OtherCells == {<<>>, <<SP, "x", BEL>>}

\* rows with four cells, and rows cut short after 0, 2 or 3 cells
RawRows ==
    {<<i, t, a, f>> : i \in {<<SP, "x", BEL>>}, t \in TitleCells, a \in {<<"x">>}, f \in FileCells}
    \cup {<<>>}
    \cup {<<i, t>> : i \in {<<>>}, t \in {<<"t">>}}
    \cup {<<i, t, a>> : i \in {<<>>}, t \in {<<"t">>}, a \in OtherCells}

\* a first row that, read as data, would be kept
HeaderRows == {Header, <<<<"0">>, <<"t">>, <<"x">>, <<"f">>>>}

RECURSIVE RawSheets(_)
RawSheets(n) ==
    IF n = 0 THEN {<<h>> : h \in HeaderRows}
    ELSE LET shorter == RawSheets(n - 1)
         IN  shorter \cup {Append(sh, r) : sh \in {x \in shorter : Len(x) = n}, r \in RawRows}

InitLoad ==
    /\ rows \in RawSheets(MaxDataRows) \cup {<<>>}
    /\ books = <<>>
    /\ fuse = <<>>
    /\ waitingForMeta = [u \in Users |-> Absent]
    /\ requests = <<>>
    /\ lastRequestAt = <<>>
    /\ clock = ClockStart
    /\ tasks = {StartupRun}
    /\ finished = {}
    /\ nEvents = 0
    /\ calls = <<>>
    /\ rejected = {}
    /\ notices = <<>>
    /\ proc = ProcStart
    /\ ParseIdle

NextLoad ==
    \/ FetchServer
    \/ LoadResume

SpecLoad == InitLoad /\ [][NextLoad]_vars

-----------------------------------------------------------------------------
(* Properties.  What a text, a cell or a sheet should come to is written   *)
(* here by positions in the raw value, without the operators of the model. *)

\* out is s without its leading and trailing whitespace
IsTrimOf(out, s) ==
    \E i \in 1..(Len(s) + 1), j \in 0..Len(s) :
        /\ i <= j + 1
        /\ out = [k \in 1..(j - i + 1) |-> s[i + k - 1]]
        /\ \A k \in 1..(i - 1) : s[k] \in WhiteSpace
        /\ \A k \in (j + 1)..Len(s) : s[k] \in WhiteSpace
        /\ i <= j => s[i] \notin WhiteSpace /\ s[j] \notin WhiteSpace

\* s without its control characters
WithoutControl(s) == SelectSeq(s, LAMBDA c : c \notin {TAB, BEL})

\* out is s with the control characters taken out, then trimmed
IsSanitisedOf(out, s) == IsTrimOf(out, WithoutControl(s))

\* the sanitised form of s
Sanitised(s) ==
    LET w == WithoutControl(s)
        parts == UNION {{[k \in 1..n |-> w[i + k]] : n \in 0..(Len(w) - i)} : i \in 0..Len(w)}
    IN  CHOOSE out \in parts : IsTrimOf(out, w)

\* the positions of the '|' characters of c, and the k-th of them
PipesOf(c) == {i \in 1..Len(c) : c[i] = PIPE}

NthPipe(c, k) == CHOOSE i \in PipesOf(c) : Cardinality({j \in PipesOf(c) : j < i}) = k - 1

\* the k-th stretch of c between '|' characters; empty when c has fewer
Segment(c, k) ==
    LET n == Cardinality(PipesOf(c))
        from == IF k = 1 THEN 1 ELSE NthPipe(c, k - 1) + 1
        to == IF k <= n THEN NthPipe(c, k) - 1 ELSE Len(c)
    IN  IF k > n + 1 THEN <<>> ELSE [x \in 1..(to - from + 1) |-> c[from + x - 1]]

\* m holds the first three segments of c, each trimmed
ParsedFrom(m, c) ==
    /\ IsTrimOf(m.id, Segment(c, 1))
    /\ IsTrimOf(m.title, Segment(c, 2))
    /\ IsTrimOf(m.author, Segment(c, 3))

\* the second segment of c has a character that trimming leaves
HasTitleSegment(c) == \E x \in 1..Len(Segment(c, 2)) : Segment(c, 2)[x] \notin WhiteSpace

\* a raw value has a character left after sanitising / after trimming
NonEmptySanitised(s) == \E x \in 1..Len(s) : s[x] \notin {TAB, BEL, SP}

NonEmptyTrimmed(s) == \E x \in 1..Len(s) : s[x] \notin WhiteSpace

-----------------------------------------------------------------------------
\* C2: under a clock that never runs backwards, two calls of rateLimit for
\* the same user that are both admitted are at least RATE_WINDOW_MS apart
\* (at most one admitted call per user in any window), and the first call of
\* a user is admitted.
C2_OncePerWindow ==
    \A i, j \in 1..Len(calls) :
        /\ (i < j /\ calls[i].user = calls[j].user /\ calls[i].ok /\ calls[j].ok)
               => calls[j].at - calls[i].at >= RATE_WINDOW_MS
        /\ (\A h \in 1..(i - 1) : calls[h].user # calls[i].user) => calls[i].ok

\* a user is admitted, refused within the window, and admitted again after it
C2_Witness ==
    \E i, j, k \in 1..Len(calls) :
        /\ i < j /\ j < k
        /\ calls[i].user = calls[j].user /\ calls[j].user = calls[k].user
        /\ calls[i].ok /\ ~calls[j].ok /\ calls[k].ok
        /\ calls[j].at - calls[i].at = RATE_WINDOW_MS - 1

-----------------------------------------------------------------------------
\* the results the two intake paths have produced for text
ParseResults ==
    {capOut[x] : x \in {y \in 1..Len(capOut) : capOut[y].captioned}}
    \cup {[captioned |-> TRUE, m |-> repOut[x].m, accepted |-> repOut[x].accepted] :
             x \in 1..Len(repOut)}

Str007 == <<"0", "0", "7">>
StrGreatBook == <<"G", "r", "e", "a", "t", " ", "B", "o", "o", "k">>
StrJaneDoe == <<"J", "a", "n", "e", " ", "D", "o", "e">>

\* C9: the (sanitised) text is split on '|' and each segment trimmed; the
\* first three segments are id, title and author, further segments are
\* ignored and missing ones are empty; the text is accepted exactly when the
\* title is non-empty; "007|Great Book|Jane Doe" and "|Great Book|" parse as
\* the specification says; the captioned-upload path and the metadata-reply
\* path give the same result.
C9_ParsesBySegments ==
    /\ \A o \in ParseResults :
          /\ ParsedFrom(o.m, Sanitised(text))
          /\ o.accepted <=> HasTitleSegment(Sanitised(text))
          /\ text = Example1 =>
                o.m = [id |-> Str007, title |-> StrGreatBook, author |-> StrJaneDoe] /\ o.accepted
          /\ text = Example2 =>
                o.m = [id |-> <<>>, title |-> StrGreatBook, author |-> <<>>] /\ o.accepted
    /\ \A o1, o2 \in ParseResults : o1 = o2

\* both paths have parsed a text with surrounding blanks, a control character
\* and five segments, and accepted it
C9_Witness ==
    /\ text = Example4
    /\ capOut # <<>> /\ repOut # <<>>
    /\ capOut[1].captioned /\ capOut[1].accepted /\ repOut[1].accepted
    /\ repOut[1].m = [id |-> <<"1">>, title |-> <<"T">>, author |-> <<"A">>]

-----------------------------------------------------------------------------
\* the k-th cell of a raw row, empty when the row is shorter
RawCell(r, k) == IF k <= Len(r) THEN r[k] ELSE <<>>

\* the rows of a sheet, after row 1, that have a title and a reference
KeptRows(sheet) ==
    {i \in 2..Len(sheet) :
        NonEmptySanitised(RawCell(sheet[i], 2)) /\ NonEmptyTrimmed(RawCell(sheet[i], 4))}

NthKept(sheet, k) ==
    CHOOSE i \in KeptRows(sheet) : Cardinality({j \in KeptRows(sheet) : j < i}) = k - 1

\* bs is the generation of sheet: one record per kept row, in the order of
\* the rows, with id, title and author sanitised and the reference trimmed
IsGenerationOf(bs, sheet) ==
    /\ Len(bs) = Cardinality(KeptRows(sheet))
    /\ \A k \in 1..Len(bs) :
          LET r == sheet[NthKept(sheet, k)]
          IN  /\ IsSanitisedOf(bs[k].id, RawCell(r, 1))
              /\ IsSanitisedOf(bs[k].title, RawCell(r, 2))
              /\ IsSanitisedOf(bs[k].author, RawCell(r, 3))
              /\ IsTrimOf(bs[k].file_id, RawCell(r, 4))

\* C5: a load whose fetch succeeded makes books the in-order subsequence of
\* the rows after the header row (row 0 is always skipped) that have a
\* non-empty sanitised title and a non-empty trimmed reference; each record
\* carries the sanitised id, title and author and the reference changed only
\* by trimming; rows missing title or reference are dropped and the load
\* does not fail.
C5_LoadedGeneration ==
    \A t \in finished :
        (t.h = "startup" /\ t.io = "ok") =>
            /\ ~t.loadRaised
            /\ t.nReload = 1
            /\ IsGenerationOf(books, t.snap)

\* a sheet whose first row would pass as data, with one row dropped and one
\* kept row whose reference holds a control character
C5_Witness ==
    \E t \in finished :
        /\ t.h = "startup" /\ t.io = "ok"
        /\ Len(t.snap) = 3
        /\ t.snap[1] # Header
        /\ Len(books) = 1
        /\ books[1].file_id = <<"f", BEL>>
        /\ books[1].title = <<"t", "u">>

-----------------------------------------------------------------------------
\* the list is left alone, or replaced by the whole generation of the fetched rows
WholeGeneration ==
    \/ books' = books
    \/ \E t \in tasks :
          /\ t.pc = "fetch" /\ t.io = "ok" /\ t \notin tasks'
          /\ IsGenerationOf(books', t.snap)

\* C7: in every state (each is a point at which another handler can run) the
\* search index is built from exactly the records of the current list, and
\* every step either leaves the list alone or replaces it by the complete
\* generation of one fetch: no partly filled list is ever visible.
C7_AtomicSwap == [](fuse = books) /\ [][WholeGeneration]_vars

\* another handler is suspended while the catalog holds a generation that
\* replaced an earlier, different one
C7_Witness ==
    /\ Len(books) = 2
    /\ fuse = books
    /\ \E t \in tasks : t.pc \in {"replyUser", "sendFound", "notify", "append"}
    /\ \E d \in finished : d.nReload = 1 /\ d.path \in {"caption", "reply"}

-----------------------------------------------------------------------------
\* the reply a caller of loadSheet sends when loadSheet raised
FailureReplyOf(t) ==
    IF t.h = "reload" THEN "reloadFailed"
    ELSE IF t.h \in {"message", "add"} THEN "failedToSave"
    ELSE ""

\* when the fetch of a load has failed, the step that resumes loadSheet
\* changes neither books nor fuse and reports the failure to the caller
FailedLoadKeepsGeneration ==
    \A t \in tasks :
        (t.pc = "fetch" /\ t.io = "err" /\ t \notin tasks') =>
            /\ books' = books
            /\ fuse' = fuse
            /\ \E d \in finished' :
                  /\ d.ev = t.ev /\ d.h = t.h
                  /\ d.loadRaised
                  /\ d.nReload = 0
                  /\ d.reply = FailureReplyOf(t)

\* C6: if the store fetch inside loadSheet fails, loadSheet raises the error
\* to its caller and books and fuse are exactly what they were before; this
\* holds for /reload and for the reload that follows an intake append.
C6_FailedFetch == [][FailedLoadKeepsGeneration]_vars

\* the reload after an intake append failed while a generation was loaded
C6_Witness ==
    \E d \in finished :
        /\ d.loadRaised
        /\ d.path \in {"caption", "reply"}
        /\ d.nAppend = 1
        /\ d.reply = "failedToSave"
        /\ books # <<>>
        /\ Len(rows) = Len(books) + 2

-----------------------------------------------------------------------------
(* Steps of the message handler                                            *)

\* the runs of bot.on('message') started by the step: those of the event
\* just dispatched, returned at once or suspended
JustDispatched ==
    {t \in finished' \cup tasks' : nEvents' = nEvents + 1 /\ t.ev = nEvents' /\ t.h = "message"}

\* the message of run t is let through by the rate limiter: its sender has
\* not been admitted within the window before it
Admitted(t) ==
    \/ t.msg.from \notin DOMAIN lastRequestAt
    \/ clock' - lastRequestAt[t.msg.from] >= RATE_WINDOW_MS

\* run t handles an admitted upload of an allowed type by an administrator
\* in a private chat
AdminUpload(t) ==
    /\ t.msg.chatType = "private"
    /\ Admitted(t)
    /\ t.msg.from \in {ADMIN_IDS[i] : i \in 1..Len(ADMIN_IDS)}
    /\ t.msg.doc
    /\ t.msg.mime = "application/pdf"

\* run t handles an admitted reply with text by an administrator in a
\* private chat
AdminReply(t) ==
    /\ t.msg.chatType = "private"
    /\ Admitted(t)
    /\ t.msg.from \in {ADMIN_IDS[i] : i \in 1..Len(ADMIN_IDS)}
    /\ ~t.msg.doc
    /\ t.msg.reply
    /\ t.msg.text # <<>>

\* the run has appended nothing and loaded nothing, and is not about to
NoStoreAccess(t) == t.nAppend = 0 /\ t.nReload = 0 /\ t.pc \notin {"append", "fetch"}

-----------------------------------------------------------------------------
\* an upload without caption opens the session of the conversation
UploadOpensSession ==
    \A t \in JustDispatched :
        (AdminUpload(t) /\ ~NonEmptySanitised(t.msg.caption)) =>
            /\ waitingForMeta'[t.msg.from] # Absent
            /\ IsTrimOf(waitingForMeta'[t.msg.from][1].file_id, t.msg.file_id)

\* a reply with a title, sent while the session is open, goes to the store
\* with the reference of the session
ReplyUsesSession ==
    \A t \in JustDispatched :
        (AdminReply(t) /\ waitingForMeta[t.msg.from] # Absent
            /\ HasTitleSegment(Sanitised(t.msg.text))) =>
            /\ t \in tasks'
            /\ t.pc = "append"
            /\ t.file_id = waitingForMeta[t.msg.from][1].file_id

\* when its append has succeeded, the reply's run deletes the session
AppendClosesSession ==
    \A t \in tasks :
        (t.h = "message" /\ ~t.msg.doc /\ t.msg.reply /\ t.pc = "append" /\ t.io = "ok"
            /\ t \notin tasks') =>
            waitingForMeta'[t.msg.from] = Absent

\* a valid reply sent while no session is open is searched for as a query
ReplyWithoutSessionIsQuery ==
    \A t \in JustDispatched :
        (AdminReply(t) /\ waitingForMeta[t.msg.from] = Absent
            /\ HasTitleSegment(Sanitised(t.msg.text))) =>
            /\ t.nSearch = 1
            /\ t.query = Sanitised(t.msg.text)
            /\ t.path \in {"noResult", "found"}

\* and no run started without a session by a message that is no upload ever
\* reaches the store
QueryNeverAppends ==
    \A t \in tasks' \cup finished' :
        (t.h = "message" /\ ~t.msg.doc /\ ~t.hadSession) => NoStoreAccess(t)

\* C1: after an admitted administrator upload of an allowed type with no
\* caption a session exists for the conversation; a later admitted reply
\* with a non-empty title whose append succeeds deletes the session; a
\* further valid reply sent when no session exists is handled as a search
\* query and never causes a store append.
C1_SessionLifecycle ==
    [][/\ UploadOpensSession
       /\ ReplyUsesSession
       /\ AppendClosesSession
       /\ ReplyWithoutSessionIsQuery
       /\ QueryNeverAppends]_vars

\* the reply that consumed the session is reloading while a second valid
\* reply, sent after the session was deleted, is being answered as a query
C1_Witness ==
    \E t2, t3 \in tasks :
        /\ t2.msg.reply /\ t2.hadSession /\ t2.path = "reply"
        /\ t2.pc = "fetch" /\ t2.nAppend = 1
        /\ t3.ev > t2.ev
        /\ t3.msg.reply /\ t3.msg.text = MetaFull /\ ~t3.hadSession
        /\ t3.nSearch = 1 /\ t3.nAppend = 0
        /\ waitingForMeta[t3.msg.from] = Absent

-----------------------------------------------------------------------------
\* run t was answered at once, touched neither the store nor the catalog nor
\* the sessions, and left nothing of its event suspended
RejectedOutright(t, reply) ==
    /\ t \in finished'
    /\ t.reply = reply
    /\ NoStoreAccess(t)
    /\ rows' = rows
    /\ books' = books
    /\ waitingForMeta' = waitingForMeta
    /\ \A x \in tasks' : x.ev # t.ev

\* the records of the generation that carry the reference of the upload
SameReference(t) == {k \in 1..Len(books) : IsTrimOf(books[k].file_id, t.msg.file_id)}

\* a captioned upload whose reference is in the generation is refused with
\* the title of the first record that carries it, and adds nothing
DuplicateUploadRejected ==
    \A t \in JustDispatched :
        (AdminUpload(t) /\ NonEmptySanitised(t.msg.caption)
            /\ HasTitleSegment(Sanitised(t.msg.caption)) /\ SameReference(t) # {}) =>
            /\ RejectedOutright(t, "duplicate")
            /\ \E k \in SameReference(t) :
                  /\ \A j \in SameReference(t) : k <= j
                  /\ t.dupTitle = books[k].title

\* a reference refused as a duplicate is carried by one record at most
NoSecondRecord ==
    \A f \in rejected : Cardinality({k \in 1..Len(books) : books[k].file_id = f}) <= 1

\* C4: a captioned administrator upload whose reference equals that of a
\* record of the current generation is rejected, the reply naming the title
\* of the (first) record that already carries the reference; the upload
\* appends nothing to the store, starts no reload and changes neither the
\* generation nor the sessions.
C4_DuplicateRejected == [][DuplicateUploadRejected]_vars

\* C4 as stated: ... and from then on, after any later reload, the generation
\* holds no second record with that reference.
C4_NoSecondRecordEver == [][DuplicateUploadRejected]_vars /\ []NoSecondRecord

\* an upload captioned "1|T|A" is refused because its reference is that of
\* the record titled "S"
C4_Witness ==
    \E d \in finished :
        /\ d.reply = "duplicate"
        /\ d.msg.caption = MetaFull
        /\ d.dupTitle = <<"S">>
        /\ d.nAppend = 0
        /\ Len(rows) = Len(InitialRows)

-----------------------------------------------------------------------------
\* C8: a captioned administrator upload whose title segment is empty after
\* trimming ("id||author", or a caption without '|') is rejected with the
\* caption-format message, performs no store append and no reload, and
\* leaves the session of the conversation, present or absent, unchanged.
C8_EmptyTitleRejected ==
    [][\A t \in JustDispatched :
          (AdminUpload(t) /\ NonEmptySanitised(t.msg.caption)
              /\ ~HasTitleSegment(Sanitised(t.msg.caption))) =>
              RejectedOutright(t, "captionFormat")]_vars

\* a caption without '|' is refused while a session is open
C8_Witness ==
    \E d \in finished :
        /\ d.reply = "captionFormat"
        /\ d.msg.caption = MetaNoPipe
        /\ d.hadSession
        /\ waitingForMeta[d.msg.from] # Absent

-----------------------------------------------------------------------------
\* C3 as stated: a query without result appends exactly one record to the
\* ledger and attempts exactly one notification per administrator,
\* whichever sends fail, the "not found" reply included.
C3_LedgerAndFanOut ==
    \A t \in finished :
        (t.h = "message" /\ t.path = "noResult") =>
            /\ t.nLedger = 1
            /\ \A i \in 1..Len(ADMIN_IDS) : t.attempts[i] = 1

-----------------------------------------------------------------------------
\* C10: once notifyAdminsAboutRequest is entered it attempts delivery to
\* every administrator of the roster exactly once, in order, whichever of
\* the deliveries fail: no retry, no administrator skipped after a failure,
\* and nothing raised to the handler.
C10_EachAdminOnce ==
    /\ \A t \in finished :
          t.notified => /\ ~t.caught
                        /\ \A i \in 1..Len(ADMIN_IDS) : t.attempts[i] = 1
    /\ \A t \in tasks :
          t.notified => /\ ~t.caught
                        /\ t.pc = "notify"
                        /\ \A i \in 1..Len(ADMIN_IDS) :
                              t.attempts[i] = IF i <= t.k THEN 1 ELSE 0

\* the delivery to the first administrator failed, the second was attempted
C10_Witness ==
    \E d \in finished :
        /\ d.notified
        /\ d.failedTo = {1}
        /\ d.attempts[2] = 1

-----------------------------------------------------------------------------
\* the call of rateLimit made by the step, if it made one
LastCall == calls'[Len(calls')]

\* a refused call leaves the map alone; an admitted call writes the entry of
\* its user and no other
RateCallFrame ==
    IF Len(calls') = Len(calls) + 1
    THEN /\ ~LastCall.ok => lastRequestAt' = lastRequestAt
         /\ LastCall.ok =>
               /\ DOMAIN lastRequestAt' = DOMAIN lastRequestAt \cup {LastCall.user}
               /\ lastRequestAt'[LastCall.user] = LastCall.at
               /\ \A v \in DOMAIN lastRequestAt \ {LastCall.user} :
                     lastRequestAt'[v] = lastRequestAt[v]
    ELSE lastRequestAt' = lastRequestAt

\* whether a call is admitted is settled by the earlier admitted calls of the
\* same user alone
OwnTrafficDecides ==
    Len(calls') = Len(calls) + 1 =>
        (LastCall.ok <=>
            \A i \in 1..Len(calls) :
                (calls[i].user = LastCall.user /\ calls[i].ok)
                    => LastCall.at - calls[i].at >= RATE_WINDOW_MS)

\* C13: a rejected rateLimit(u) call leaves the whole last-request map
\* unchanged; an admitted call sets the entry of u to the current time and
\* leaves every other user's entry unchanged, so one user's traffic never
\* affects another user's admission.
C13_RateLimitFrame == [][RateCallFrame /\ OwnTrafficDecides]_vars

\* a call is refused after calls of both users were admitted, and both
\* entries still hold the times of those admitted calls
C13_Witness ==
    \E i, j, k \in 1..Len(calls) :
        /\ i < k /\ j < k /\ k = Len(calls)
        /\ calls[i].user # calls[j].user
        /\ calls[i].ok /\ calls[j].ok /\ ~calls[k].ok
        /\ calls[k].user = calls[j].user
        /\ calls[k].at > calls[j].at
        /\ lastRequestAt[calls[i].user] = calls[i].at
        /\ lastRequestAt[calls[j].user] = calls[j].at

-----------------------------------------------------------------------------
\* the declared types of the uploads that are outside the allow-list
OtherTypes == {"image/png", "text/csv"}

\* the message of run t is an administrator's upload of another type
UnsupportedUpload(t) ==
    /\ t.msg.chatType = "private"
    /\ t.msg.from \in {ADMIN_IDS[i] : i \in 1..Len(ADMIN_IDS)}
    /\ t.msg.doc
    /\ t.msg.mime \in OtherTypes

\* the message handler answers it with the list of the allowed types and
\* returns: the sessions, the sheet and the generation are as before, and no
\* listener of the event is on its way to the store
RefusedAtTheGate ==
    \A t \in JustDispatched :
        (UnsupportedUpload(t) /\ Admitted(t)) =>
            /\ t \in finished'
            /\ t.reply = "unsupportedType"
            /\ t.m = [id |-> <<>>, title |-> <<>>, author |-> <<>>]
            /\ waitingForMeta' = waitingForMeta
            /\ rows' = rows
            /\ books' = books
            /\ \A x \in tasks' \cup finished' : x.ev = t.ev => NoStoreAccess(x)

\* no later step of a listener of such an upload touches them either
UnsupportedStaysOut ==
    \A t \in tasks :
        (UnsupportedUpload(t) /\ t \notin tasks') =>
            /\ waitingForMeta' = waitingForMeta
            /\ rows' = rows
            /\ books' = books
            /\ \A x \in tasks' \cup finished' : x.ev = t.ev => NoStoreAccess(x)

\* C14: an administrator upload whose declared media type is outside the
\* allow-list is rejected before caption parsing and session creation: no
\* session is created or overwritten, no store append and no reload happen,
\* whether or not the upload has a caption and whether or not a session is
\* pending.
C14_UnsupportedTypeRejected == [][RefusedAtTheGate /\ UnsupportedStaysOut]_vars

\* a captioned upload of an image has just been refused while the session
\* of an earlier upload is pending
C14_Witness ==
    \E t \in finished :
        /\ t.h = "message"
        /\ t.reply = "unsupportedType"
        /\ t.msg.mime = "image/png"
        /\ t.msg.caption = MetaFull
        /\ waitingForMeta[t.msg.from] # Absent

-----------------------------------------------------------------------------
(* Steps of the listeners of one event                                     *)

\* the runs of every listener of the event just dispatched
ListenersJustRun ==
    {t \in finished' \cup tasks' : nEvents' = nEvents + 1 /\ t.ev = nEvents'}

\* the run has searched nothing, written nothing to the ledger, notified
\* nobody and checks no reference
Inert(t) ==
    /\ t.nSearch = 0
    /\ t.nLedger = 0
    /\ ~t.notified
    /\ t.attempts = [i \in 1..Len(ADMIN_IDS) |-> 0]

\* C12: when rateLimit rejects a user's inbound message, no handler run for
\* that message performs a catalog search, a store append, a reload, a ledger
\* append or an administrator notification, and the intake session is
\* unchanged; this covers plain text, document uploads, metadata replies and
\* command texts such as /add.
C12_RejectedMessageDoesNothing ==
    [][\A t \in ListenersJustRun :
          (t.msg.chatType = "private" /\ ~Admitted(t)) =>
              /\ Inert(t)
              /\ NoStoreAccess(t)
              /\ requests' = requests
              /\ waitingForMeta' = waitingForMeta]_vars

\* the listeners of the commands
CommandListeners == {"list", "reload", "add", "validate", "export", "search", "cleanup"}

\* C15: every administrator command (list-first-N, reload, quick-add, start
\* validation, export, detailed search, duplicate scan) invoked by an
\* identity outside the administrator roster produces only the denial
\* message: it discloses no catalog records, performs no store append or
\* reload, and starts no validation job.
C15_CommandsDenied ==
    [][\A t \in ListenersJustRun :
          (t.h \in CommandListeners
              /\ t.msg.from \notin {ADMIN_IDS[i] : i \in 1..Len(ADMIN_IDS)}) =>
              /\ t \in finished'
              /\ t.reply = "onlyAdmin"
              /\ t.disclosed = <<>>
              /\ NoStoreAccess(t)
              /\ \A x \in ListenersJustRun : x.h # "validateJob"]_vars

-----------------------------------------------------------------------------
(* A best match that could not be delivered                                *)

\* the runs that found a best match and have ended without delivering it
Undelivered == {t \in finished : t.h = "message" /\ t.path = "found" /\ t.reply # "delivered"}

\* C18: when a query has a best match but delivering its document fails,
\* the requesting user is sent a failure message and every administrator of
\* the roster gets one notification attempt whose text contains the document
\* reference of the record that could not be delivered.
C18_FailureReported ==
    \A t \in Undelivered :
        /\ \A i \in 1..Len(ADMIN_IDS) : t.attempts[i] = 1
        /\ t.notice = <<t.best[1].file_id>>

\* the runs that found a best match and are notifying, or have notified, the
\* administrators of the failed delivery
FailureNotified == {t \in tasks \cup finished : t.h = "message" /\ t.path = "found" /\ t.notified}

\* C19: when a query has a best match but delivering its document fails, a
\* record for that event is appended to the request ledger (exactly one), as
\* for a zero-result search, before the administrators are notified.
C19_FailureInLedger ==
    \A t \in FailureNotified :
        /\ t.nLedger = 1
        /\ \E i \in 1..Len(requests) : requests[i].userId = t.msg.from

-----------------------------------------------------------------------------
(* Acknowledgments                                                         *)

\* run t handles a press of 'Mark handled'
IsAck(t) == t.h = "callback" /\ t.msg.text = DataHandled

FromRoster(t) == t.msg.from \in {ADMIN_IDS[i] : i \in 1..Len(ADMIN_IDS)}

\* ledger, catalog, sheet and sessions are left alone by the step
AckFrame ==
    /\ requests' = requests
    /\ books' = books
    /\ fuse' = fuse
    /\ rows' = rows
    /\ waitingForMeta' = waitingForMeta

\* a press by anybody else is answered with the denial at once, and no
\* notice changes; a press by an administrator starts the edit
AckGate ==
    \A t \in ListenersJustRun :
        IsAck(t) =>
            /\ AckFrame
            /\ notices' = notices
            /\ IF FromRoster(t)
               THEN t \in tasks' /\ t.pc = "edit"
               ELSE t \in finished' /\ t.reply = "onlyAdmins"

\* the end of an acknowledgment changes nothing but what its notice shows:
\* 'handled' when the edit took effect, and as before otherwise; a notice
\* that showed 'handled' already is left as it was
AckEdit ==
    \A t \in tasks :
        (IsAck(t) /\ t \notin tasks') =>
            /\ FromRoster(t)
            /\ AckFrame
            /\ DOMAIN notices' = DOMAIN notices
            /\ \A n \in DOMAIN notices :
                  /\ notices'[n].chat = notices[n].chat
                  /\ n # t.k => notices'[n] = notices[n]
            /\ \A d \in finished' :
                  /\ d.reply = "markedHandled" => notices'[t.k].shows = "handled"
                  /\ d.reply # "markedHandled" => notices' = notices
            /\ notices[t.k].shows = "handled" => notices' = notices

\* no other step changes what a notice shows
OnlyAcksEdit ==
    \A n \in DOMAIN notices :
        (n \in DOMAIN notices' /\ notices'[n] # notices[n]) =>
            \E t \in tasks \ tasks' : IsAck(t) /\ FromRoster(t) /\ t.k = n

\* C17: a 'mark handled' acknowledgment takes effect only when it originates
\* from an administrator identity: from any other identity nothing is edited
\* and a denial is answered; from an administrator it only replaces the
\* presentation of the already-sent notification, and acknowledging the same
\* notification again leads to the same state as acknowledging it once;
\* ledger, catalog and sessions are unchanged in every case.
C17_AcknowledgedByAdminsOnly == [][AckGate /\ AckEdit /\ OnlyAcksEdit]_vars

\* an administrator's second acknowledgment of a notice has just taken
\* effect: the notice showed 'handled' before it and shows it now
C17_Witness ==
    \E t \in finished :
        /\ IsAck(t)
        /\ t.reply = "markedHandled"
        /\ t.before = <<"handled">>
        /\ notices[t.k].shows = "handled"
        /\ Len(requests) = 1

-----------------------------------------------------------------------------
(* The validation job                                                      *)

\* the jobs whose loop is over and that found the list they started on at
\* every loop test
StableJobsDone ==
    {t \in tasks \cup finished :
        /\ t.h = "validateJob"
        /\ t.stable
        /\ t.pc \in {"sendAllValid", "sendSummary", "sendReport", "sendJobFailed", "done"}}

\* the number of indices below k whose check failed
FailedBelow(t, k) == Cardinality({j \in t.failedTo : j < k})

\* every record was checked once, in the order of the list; the report
\* holds, in that order, the records whose check failed, each with its row,
\* and nothing else
CheckedAndReported(t) ==
    /\ t.checked = [k \in 1..Len(t.gen) |-> k]
    /\ Len(t.report) = Cardinality(t.failedTo)
    /\ \A k \in t.failedTo :
          t.report[FailedBelow(t, k) + 1] = [row |-> k + 1, rec |-> t.gen[k]]

\* what the job sends follows from the failed checks alone
AnswerOf(t) ==
    /\ t.reply = "allValid" => t.failedTo = {}
    /\ t.reply = "report" => t.failedTo # {}
    /\ (t.pc = "done" /\ ~t.caught) => t.reply = (IF t.failedTo = {} THEN "allValid" ELSE "report")
    /\ t.pc = "sendAllValid" => t.failedTo = {}
    /\ t.pc \in {"sendSummary", "sendReport"} => t.failedTo # {}

\* C11: when the catalog is not reloaded during the run,
\* validateAllFileIdsAndReport checks every record of the generation once, in
\* order, and its report contains exactly the records whose reference failed
\* resolution (each with its position) and no others; when no reference
\* fails it sends the all-valid confirmation instead of a report.
C11_ValidationReport == \A t \in StableJobsDone : CheckedAndReported(t) /\ AnswerOf(t)

\* the job has sent its report on a list of two records of which only the
\* second failed: the report is that record alone, with row 3
C11_Witness ==
    \E t \in finished :
        /\ t.h = "validateJob"
        /\ t.stable
        /\ t.reply = "report"
        /\ Len(t.gen) = 2
        /\ t.failedTo = {2}
        /\ t.report = <<[row |-> 3, rec |-> t.gen[2]]>>

-----------------------------------------------------------------------------
(* The ledger                                                              *)

\* the step keeps every record of the ledger, in its place
LedgerKept ==
    /\ Len(requests') >= Len(requests)
    /\ \A i \in 1..Len(requests) : requests'[i] = requests[i]

\* C16: the request ledger is append-only: in every reachable state the
\* ledger has the ledger of every earlier state as a prefix; no handler
\* (search, intake, reload, validation, acknowledgment) changes or removes an
\* existing record.
C16_LedgerAppendOnly == [][LedgerKept]_vars

\* a second record has been pushed behind the one the ledger started with
C16_Witness ==
    /\ Len(requests) = 2
    /\ requests[1] = requestRecord("u1", TextQuery, ClockStart)
    /\ \E t \in tasks \cup finished : t.h = "message" /\ t.nLedger = 1

-----------------------------------------------------------------------------
(* The process                                                             *)

\* the listeners are called for an arriving event as long as the process
\* runs: no step ends it, whatever has failed, so that the events that
\* arrive after a failure find their listeners
\* C20: no collaborator failure (store fetch or append, transport send,
\* reference resolution) during the handling of one event stops event
\* processing: after any such failure, in any handler including commands and
\* the background validation job, the bot still accepts and handles every
\* later inbound event.
C20_ProcessingGoesOn == proc.alive

\* after a rejection that no handler caught, a user's query has arrived and
\* its document has been delivered
C20_Witness ==
    /\ proc.unhandled
    /\ \E t \in finished :
          /\ t.h = "message"
          /\ t.afterFault
          /\ t.reply = "delivered"

-----------------------------------------------------------------------------
(* The validation job beside a reload                                      *)

\* the jobs whose loop is over, whatever happened to the list meanwhile
JobsDone ==
    {t \in tasks \cup finished :
        /\ t.h = "validateJob"
        /\ t.pc \in {"sendAllValid", "sendSummary", "sendReport", "sendJobFailed", "done"}}

\* C22: a validation job started on generation G checks exactly the records
\* of G, each once and in G's order, even when the catalog is reloaded
\* (swapped) while the job is suspended between checks; the records and
\* positions in its report and the count in its confirmation refer to G.
C22_JobKeepsItsGeneration ==
    \A t \in JobsDone :
        /\ t.checked = [k \in 1..Len(t.gen) |-> k]
        /\ \A i \in 1..Len(t.report) :
              /\ t.report[i].row - 1 \in 1..Len(t.gen)
              /\ t.report[i].rec = t.gen[t.report[i].row - 1]

-----------------------------------------------------------------------------
(* Sessions across the await of the append                                 *)

\* a session is deleted by the step only when a reply that was accepted
\* against it, and so carries its reference, ends its append in that step
DeletedByItsReply ==
    \A c \in DOMAIN waitingForMeta :
        (waitingForMeta[c] # Absent /\ waitingForMeta'[c] = Absent) =>
            \E t \in tasks :
                /\ t.h = "message" /\ t.path = "reply"
                /\ t.msg.from = c
                /\ t.pc = "append"
                /\ t \notin tasks'
                /\ t.file_id = waitingForMeta[c][1].file_id

\* C23: no lost session update: when a metadata-reply handler is suspended in
\* the store append and a new uncaptioned upload in the same conversation
\* stores a new session meanwhile, the completion of the reply handler does
\* not delete the newer session; a session stored by an upload is removed
\* only by a reply that was accepted against that same session.
C23_NoLostSession == [][DeletedByItsReply]_vars

-----------------------------------------------------------------------------
(* The duplicate lookups                                                   *)

\* the letters of the model, upper case and lower case
CasePairs == {<<"A", "a">>, <<"B", "b">>, <<"F", "f">>, <<"G", "g">>, <<"S", "s">>, <<"T", "t">>}

SameLetter(c, d) == c = d \/ <<c, d>> \in CasePairs \/ <<d, c>> \in CasePairs

\* a and b are equal when the case of their letters is ignored
SameIgnoringCase(a, b) == Len(a) = Len(b) /\ \A i \in 1..Len(a) : SameLetter(a[i], b[i])

\* r is what a lookup returns when the records at the indices hits are the
\* ones that qualify: nothing when none does, the first of them otherwise
FirstOf(r, hits) ==
    IF hits = {} THEN r = Absent
    ELSE r = <<books[CHOOSE k \in hits : \A j \in hits : k <= j]>>

\* the records whose reference is ref, letter for letter
ExactRefHits == {k \in 1..Len(books) : books[k].file_id = lookIn.file_id}

\* the records whose reference is ref when the case of letters is ignored
FoldedRefHits == {k \in 1..Len(books) : SameIgnoringCase(books[k].file_id, lookIn.file_id)}

\* the records whose title, or whose author, is not empty and equals the
\* sanitised argument when the case of letters is ignored
TitleOrAuthorHits ==
    {k \in 1..Len(books) :
        \/ books[k].title # <<>> /\ SameIgnoringCase(books[k].title, Sanitised(lookIn.title))
        \/ books[k].author # <<>> /\ SameIgnoringCase(books[k].author, Sanitised(lookIn.author))}

\* C24 as stated: the duplicate-detection lookups compare by exact,
\* case-insensitive equality against the current generation:
\* findByReference(ref) returns a record whose document reference equals ref
\* ignoring letter case and none when no such record exists, and
\* findByTitleOrAuthor(title, author) returns a record whose title or author
\* equals the given one ignoring case and none otherwise.
C24_LookupsIgnoreCase ==
    /\ lookOut.byFileId # <<>> => FirstOf(lookOut.byFileId[1], FoldedRefHits)
    /\ lookOut.byTitleOrAuthor # <<>> => FirstOf(lookOut.byTitleOrAuthor[1], TitleOrAuthorHits)

\* C24, amended: findByFileId compares the reference letter for letter and
\* returns the first record that carries it, none when no record does;
\* findByTitleOrAuthor returns the first record whose non-empty title or
\* non-empty author equals the sanitised argument ignoring the case of
\* letters, none otherwise.
C24_LookupsAsCoded ==
    /\ lookOut.byFileId # <<>> => FirstOf(lookOut.byFileId[1], ExactRefHits)
    /\ lookOut.byTitleOrAuthor # <<>> => FirstOf(lookOut.byTitleOrAuthor[1], TitleOrAuthorHits)

\* the title " t" has found the first of two records titled "t" and "T",
\* while the reference is compared letter for letter: of the references
\* "g" and "G" in the generation, "G" has found the second record
C24_Witness ==
    /\ lookIn.title = <<" ", "t">>
    /\ lookIn.file_id = <<"G">>
    /\ Len(books) = 2
    /\ books[1].file_id = <<"g">>
    /\ lookOut.byTitleOrAuthor = <<<<books[1]>>>>
    /\ lookOut.byFileId = <<<<books[2]>>>>

-----------------------------------------------------------------------------
\* a reply without a title, sent while the session is open, is answered with
\* the corrective message and changes nothing
InvalidReplyRefused ==
    \A t \in JustDispatched :
        (AdminReply(t) /\ waitingForMeta[t.msg.from] # Absent
            /\ ~HasTitleSegment(Sanitised(t.msg.text))) =>
            /\ RejectedOutright(t, "invalidMeta")
            /\ waitingForMeta'[t.msg.from] = waitingForMeta[t.msg.from]

\* a reply with a title that finds the session open is sent to the store with
\* the reference the session holds at that moment, and with no other
ValidReplyAppendsPending ==
    \A t \in JustDispatched :
        (AdminReply(t) /\ waitingForMeta[t.msg.from] # Absent
            /\ HasTitleSegment(Sanitised(t.msg.text))) =>
            /\ t.pc = "append"
            /\ t.file_id = waitingForMeta[t.msg.from][1].file_id
            /\ \A x \in tasks' : (x.ev = t.ev /\ x.pc = "append") => x = t

\* C25: while a session is pending, an administrator reply whose text fails
\* validation (empty title) returns the corrective message, performs no store
\* append and no reload, and leaves the session with the same document
\* reference, so a later valid reply still appends that document.
C25_InvalidReplyKeepsSession == [][InvalidReplyRefused /\ ValidReplyAppendsPending]_vars

\* the reply "1||A" has just been refused and the session of f is still open
C25_Witness ==
    \E d \in finished :
        /\ d.reply = "invalidMeta"
        /\ d.msg.text = MetaNoTitle
        /\ d.hadSession
        /\ d.nAppend = 0
        /\ waitingForMeta[d.msg.from] # Absent
        /\ waitingForMeta[d.msg.from][1].file_id = <<"f">>

-----------------------------------------------------------------------------
\* every conversation has one session or none
OneSessionAtMost == \A u \in DOMAIN waitingForMeta : Len(waitingForMeta[u]) <= 1

\* an upload without caption leaves the conversation with one session, that
\* of the upload: its reference and its media type, whatever was open before
UploadReplacesSession ==
    \A t \in JustDispatched :
        (AdminUpload(t) /\ ~NonEmptySanitised(t.msg.caption)) =>
            /\ Len(waitingForMeta'[t.msg.from]) = 1
            /\ IsTrimOf(waitingForMeta'[t.msg.from][1].file_id, t.msg.file_id)
            /\ waitingForMeta'[t.msg.from][1].mimeType = t.msg.mime
            /\ \A u \in DOMAIN waitingForMeta :
                  u # t.msg.from => waitingForMeta'[u] = waitingForMeta[u]

\* the row a reply's run adds to the store carries the reference the run
\* took from the session when the reply was accepted
ReplyRowCarriesReference ==
    rows' # rows =>
        \E t \in tasks :
            /\ t.pc = "append" /\ t.io = "pending"
            /\ rows' = Append(rows, <<t.m.id, t.m.title, t.m.author, t.file_id>>)

\* C26: there is at most one session per conversation: an uncaptioned upload
\* while a session is pending replaces it, so the session then holds the
\* reference and media type of the latest upload, and a following accepted
\* metadata reply appends the latest upload's reference, never the earlier
\* one.
C26_LatestUploadWins ==
    /\ []OneSessionAtMost
    /\ [][UploadReplacesSession /\ ValidReplyAppendsPending /\ ReplyRowCarriesReference]_vars

\* the first event, an upload of g without caption, found the session of f
\* open and has left the session of g in its place
C26_Witness ==
    \E d \in finished :
        /\ d.ev = 1
        /\ d.reply = "askMeta"
        /\ d.hadSession
        /\ d.msg.file_id = <<"g">>
        /\ waitingForMeta[d.msg.from] = <<[file_id |-> <<"g">>, mimeType |-> "application/pdf"]>>
        /\ \A k \in 1..Len(rows) : rows[k][4] # <<"g">>

-----------------------------------------------------------------------------
\* the step dispatches an admitted upload without caption, of an allowed
\* type, by the administrator of conversation u
UploadedAnew(u) ==
    \E t \in JustDispatched :
        t.msg.from = u /\ AdminUpload(t) /\ ~NonEmptySanitised(t.msg.caption)

\* the step completes the append of a metadata reply that was accepted in
\* conversation u
AcceptedReplyCompleted(u) ==
    \E t \in tasks :
        /\ t.h = "message" /\ t.msg.from = u /\ ~t.msg.doc /\ t.msg.reply
        /\ t.hadSession /\ HasTitleSegment(Sanitised(t.msg.text))
        /\ t.pc = "append" /\ t.io = "ok"
        /\ t \notin tasks'

\* C27: while a conversation is in AwaitingMetadata, every event other than
\* an accepted metadata reply or a new uncaptioned upload leaves that
\* conversation's session unchanged: non-reply text queries, commands,
\* rate-limited messages, rejected uploads, captioned uploads,
\* acknowledgments and events of other conversations.
C27_PendingSessionFrame ==
    [][\A u \in DOMAIN waitingForMeta :
          (waitingForMeta[u] # Absent /\ waitingForMeta'[u] # waitingForMeta[u]) =>
              (UploadedAnew(u) \/ AcceptedReplyCompleted(u))]_vars

\* the session of f is still pending after a captioned upload of g was
\* appended and a second message of the administrator was refused by the
\* rate limiter
C27_Witness ==
    /\ waitingForMeta["a1"] = <<[file_id |-> <<"f">>, mimeType |-> "application/pdf"]>>
    /\ \E t \in tasks : t.path = "caption" /\ t.nAppend = 1 /\ t.pc = "fetch"
    /\ \E d \in finished : d.reply = "slowDown" /\ d.msg.from = "a1" /\ d.hadSession

-----------------------------------------------------------------------------
\* the step starts a validation job or is a step of one
JobStep ==
    \/ \E t \in tasks' \ tasks : t.h = "validateJob" /\ t.pc \in {"resolve", "sendAllValid"}
                                  /\ \A x \in tasks : x.h = "validateJob" => x.ev # t.ev
    \/ \E t \in tasks \ tasks' : t.h = "validateJob"

\* the step completes a successful fetch of loadSheet, or the store answers
\* an append
StoreStep ==
    \E t \in tasks \ tasks' : t.h # "validateJob" /\ t.pc \in {"fetch", "append"}

\* a check that has just failed puts the record that was checked on the
\* report, and the list is after the step what it was before
FailureOnlyReported ==
    \A t \in tasks, t2 \in tasks' :
        (t.h = "validateJob" /\ t.pc = "resolve" /\ t2.h = "validateJob" /\ t2.ev = t.ev
            /\ t2.failedTo # t.failedTo) =>
            /\ Len(t2.report) = Len(t.report) + 1
            /\ t2.report[Len(t2.report)].rec = t.cur[1]
            /\ \A k \in 1..Len(books) : books[k] = t.cur[1] =>
                  (Len(books') = Len(books) /\ books'[k] = t.cur[1])

\* C28: the validation job is read-only with respect to the catalog: during
\* and after a run the generation and the store rows are what they would be
\* without the run; records whose reference fails resolution are reported,
\* never removed or changed.
C28_JobReadOnly ==
    [][/\ JobStep => (books' = books /\ fuse' = fuse /\ rows' = rows)
       /\ (books' # books \/ fuse' # fuse \/ rows' # rows) => StoreStep
       /\ FailureOnlyReported]_vars

\* a job has sent its report of one failing record; the record is in the
\* list and its row in the store, both as they were loaded
C28_Witness ==
    \E d \in finished :
        /\ d.h = "validateJob"
        /\ d.reply = "report"
        /\ Len(d.report) = 1
        /\ books = parsedRows(InitialRows)
        /\ d.report[1].rec = books[1]
        /\ rows = InitialRows

-----------------------------------------------------------------------------
\* list holds a record with reference f
HasReference(list, f) == \E k \in 1..Len(list) : list[k].file_id = f

\* the record a run hands to the store
RecordOf(t) == [id |-> t.m.id, title |-> t.m.title, author |-> t.m.author, file_id |-> t.file_id]

\* the list is the generation of the rows the store held at some earlier
\* moment: of the first n rows, the store only growing
GenerationLagsStore ==
    \E n \in 0..Len(rows) : IsGenerationOf(books, SubSeq(rows, 1, n))

\* the step in which the store takes a row leaves the list and the index as
\* they were; a reference the store did not hold before is in neither
AppendLeavesGeneration ==
    rows' # rows =>
        /\ Len(rows') = Len(rows) + 1
        /\ books' = books
        /\ fuse' = fuse
        /\ (\A i \in 1..Len(rows) : RawCell(rows[i], 4) # rows'[Len(rows')][4]) =>
              /\ ~HasReference(books', rows'[Len(rows')][4])
              /\ ~HasReference(fuse', rows'[Len(rows')][4])

\* the list and the index change only in the step that completes a
\* successful fetch of loadSheet
OnlyLoadsChangeGeneration ==
    (books' # books \/ fuse' # fuse) =>
        \E t \in tasks \ tasks' : t.pc = "fetch" /\ t.io = "ok"

\* when the reload that follows a run's append completes successfully, the
\* record of the run is in the list and in the index
ReloadShowsAppended ==
    \A t \in tasks \ tasks' :
        (t.pc = "fetch" /\ t.io = "ok" /\ t.nAppend = 1) =>
            /\ HasReference(books', t.file_id)
            /\ \E k \in 1..Len(books') : books'[k] = RecordOf(t)
            /\ \E k \in 1..Len(fuse') : fuse'[k] = RecordOf(t)

\* C29: a store append never changes the in-memory generation: the record
\* list and search index change only when a loadSheet fetch completes
\* successfully, so between a successful append and the completion of the
\* following reload the new record is found neither by search nor by
\* findByFileId, and after that reload completes successfully it is found.
C29_AppendThenReload ==
    /\ []GenerationLagsStore
    /\ [][AppendLeavesGeneration /\ OnlyLoadsChangeGeneration /\ ReloadShowsAppended]_vars

\* the captioned upload of g has been appended and reloaded and its record is
\* in the list, while the row of a metadata reply for f is in the store, its
\* reload still to come, and its record is not in the list
C29_Witness ==
    /\ \E d \in finished :
          /\ d.path = "caption" /\ d.reply = "saved" /\ d.file_id = <<"g">>
          /\ \E k \in 1..Len(books) : books[k] = RecordOf(d)
    /\ \E t \in tasks :
          /\ t.path = "reply" /\ t.nAppend = 1 /\ t.file_id = <<"f">>
          /\ \E i \in 1..Len(rows) : rows[i] = <<t.m.id, t.m.title, t.m.author, t.file_id>>
          /\ \A k \in 1..Len(books) : books[k] # RecordOf(t)
          /\ \A k \in 1..Len(fuse) : fuse[k] # RecordOf(t)

-----------------------------------------------------------------------------
\* a notification of run t is delivered in this step: its notice is the last
\* one of the administrators' chats afterwards
NoticeSent(t) ==
    /\ t.h = "message" /\ t.pc = "notify"
    /\ Len(notices') = Len(notices) + 1

\* the moment of the request a run reports: for a query without result the
\* time of its ledger record, for a failed delivery the time of the failure
ReportedAt(t, time) ==
    IF t.path = "noResult"
    THEN \E i \in 1..Len(requests) :
            requests[i].userId = t.msg.from /\ requests[i].createdAt = time
    ELSE time = "atFailure"

\* C30: every administrator notification, for a zero-result query as well as
\* for a delivery failure, carries an acknowledgment token that contains the
\* time of the request it reports and the identity of the requesting user.
C30_TokenTimeAndUser ==
    [][\A t \in tasks :
          NoticeSent(t) =>
              LET token == notices'[Len(notices')].data
              IN  /\ token.userId = <<t.msg.from>>
                  /\ token.time # <<>>
                  /\ ReportedAt(t, token.time[1])]_vars

-----------------------------------------------------------------------------
\* the number of records of list that carry reference f
CountReference(list, f) == Cardinality({k \in 1..Len(list) : list[k].file_id = f})

\* a reply with a title is sent to the store although the reference of its
\* session is carried by a record of the list
KnownReferenceAppended ==
    \A t \in JustDispatched :
        (AdminReply(t) /\ waitingForMeta[t.msg.from] # Absent
            /\ HasTitleSegment(Sanitised(t.msg.text))
            /\ HasReference(books, waitingForMeta[t.msg.from][1].file_id)) =>
            /\ t \in tasks'
            /\ t.pc = "append"
            /\ t.file_id = waitingForMeta[t.msg.from][1].file_id

\* the store takes the row of such a reply beside the row that holds the
\* reference already
KnownReferenceStored ==
    \A t \in tasks :
        (t.path = "reply" /\ t.pc = "append" /\ t.io = "pending" /\ rows' # rows
            /\ \A x \in tasks : (x.pc = "append" /\ x.io = "pending") => x = t) =>
            /\ rows'[Len(rows')][4] = t.file_id
            /\ \A i \in 1..Len(rows) : rows'[i] = rows[i]

\* and when the reload of the reply completes, the list holds the record of
\* the reply and every other row of the store that carries the reference
ReloadHoldsBoth ==
    \A t \in tasks \ tasks' :
        (t.path = "reply" /\ t.pc = "fetch" /\ t.io = "ok") =>
            /\ \E k \in 1..Len(books') : books'[k] = RecordOf(t)
            /\ CountReference(books', t.file_id) =
                  Cardinality({i \in 2..Len(t.snap) : t.snap[i][4] = t.file_id})

\* C31: the metadata-reply intake path performs no duplicate check: an
\* accepted reply whose session holds a document reference already present
\* in the current generation is still appended to the store, so after the
\* reload the generation holds two records with that reference.
C31_ReplyAppendsDuplicate ==
    [][KnownReferenceAppended /\ KnownReferenceStored /\ ReloadHoldsBoth]_vars

\* the reply for the session of f was appended and reloaded although the
\* list held f: the list now holds two records with reference f
C31_Witness ==
    \E d \in finished :
        /\ d.path = "reply" /\ d.reply = "saved" /\ d.file_id = <<"f">>
        /\ d.nAppend = 1 /\ d.nReload = 1
        /\ CountReference(books, <<"f">>) = 2
        /\ books[1].title = <<"S">>
        /\ books[2] = RecordOf(d)

-----------------------------------------------------------------------------
\* the runs of queries that had a best match and have ended
MatchedDone == {t \in finished : t.h = "message" /\ t.path = "found"}

\* C32: for an admitted non-command text query from a private conversation
\* that has at least one match, the handler makes exactly one
\* document-delivery attempt, with the document reference of the first
\* (best) result, and when that delivery succeeds it appends nothing to the
\* request ledger and notifies no administrator.
C32_OneDeliveryAttempt ==
    \A t \in MatchedDone :
        /\ t.best # <<>>
        /\ t.nDeliver = 1
        /\ t.reply = "delivered" =>
              /\ t.nLedger = 0
              /\ ~t.notified
              /\ \A i \in 1..Len(ADMIN_IDS) : t.attempts[i] = 0

-----------------------------------------------------------------------------
\* the runs of metadata replies whose append has been answered and that go
\* on in this step
ReplyAfterAppend ==
    {t \in tasks \ tasks' : t.h = "message" /\ t.path = "reply" /\ t.pc = "append"
                            /\ t.io \in {"ok", "err"}}

\* the append failed: the reply is answered with the failure message, and
\* the session, the list and the index are what they were
FailedAppendKeepsSession ==
    \A t \in ReplyAfterAppend :
        t.io = "err" =>
            /\ waitingForMeta' = waitingForMeta
            /\ books' = books /\ fuse' = fuse /\ rows' = rows
            /\ \E d \in finished' : d.ev = t.ev /\ d.reply = "failedToSave" /\ d.nAppend = 0

\* the append succeeded: the conversation has no session afterwards, and the
\* reload is still to come
AppendedDeletesSession ==
    \A t \in ReplyAfterAppend :
        t.io = "ok" =>
            /\ waitingForMeta'[t.msg.from] = Absent
            /\ \E x \in tasks' : x.ev = t.ev /\ x.pc = "fetch" /\ x.io = "pending"

\* the reload of a reply, failed or not, leaves the sessions as they are
ReloadKeepsSessions ==
    \A t \in tasks \ tasks' :
        (t.path = "reply" /\ t.pc = "fetch" /\ t.io \in {"ok", "err"}) =>
            waitingForMeta' = waitingForMeta

\* a session ends in no other step
DeletedOnlyAfterAppend ==
    \A u \in DOMAIN waitingForMeta :
        (waitingForMeta[u] # Absent /\ waitingForMeta'[u] = Absent) =>
            \E t \in ReplyAfterAppend : t.msg.from = u /\ t.io = "ok"

\* C33: in the metadata-reply path the session is deleted exactly when the
\* store append succeeded: if the append fails, the session and the
\* generation are unchanged and the administrator can retry; if the append
\* succeeds the session is deleted even when the following reload fails.
C33_DeletedIffAppended ==
    [][/\ FailedAppendKeepsSession
       /\ AppendedDeletesSession
       /\ ReloadKeepsSessions
       /\ DeletedOnlyAfterAppend]_vars

\* the reply's row is in the store, its reload has failed, the administrator
\* was told that saving failed, and the session is gone
C33_Witness ==
    \E d \in finished :
        /\ d.path = "reply" /\ d.nAppend = 1 /\ d.loadRaised
        /\ d.reply = "failedToSave"
        /\ waitingForMeta[d.msg.from] = Absent
        /\ \E i \in 1..Len(rows) : rows[i] = <<d.m.id, d.m.title, d.m.author, d.file_id>>

-----------------------------------------------------------------------------
\* the intake runs that returned in the latest step
IntakeDone ==
    {d \in finished : d.path \in {"caption", "reply"} \/ d.h = "add"}

\* C34: an intake handler (captioned upload, metadata reply, /add) sends a
\* failure message only when no row was appended for that event, and a
\* 'saved' message only when the row was appended and has become visible in
\* the generation.
C34_RepliesTellTheStore ==
    \A d \in IntakeDone :
        /\ d.reply = "failedToSave" => d.nAppend = 0
        /\ d.reply = "saved" =>
              /\ d.nAppend = 1
              /\ \E k \in 1..Len(books) : books[k] = RecordOf(d)

-----------------------------------------------------------------------------
\* the places of the store's rows that were appended since start-up
AppendedPlaces == (Len(InitialRows) + 1)..Len(rows)

\* C35: under any interleaving of the intake handlers that use the duplicate
\* check (captioned upload and /add), at most one store row is appended for a
\* given reference: two such events with the same reference, the second
\* arriving while the first is suspended in its append or reload, do not both
\* append.  (Stated where every append comes from such a handler.)
C35_OneRowPerReference ==
    \A i, j \in AppendedPlaces : rows[i][4] = rows[j][4] => i = j

-----------------------------------------------------------------------------
\* every record of the list before the step is a record of the list after it
RecordsStay ==
    \A k \in 1..Len(books) : \E j \in 1..Len(books') : books'[j] = books[k]

\* C36: when several reloads are in flight at once (from /reload and from
\* intake appends), after all have completed the generation is the one derived
\* from the most recently issued store fetch; a record that has become visible
\* is not removed again by the late completion of an earlier fetch, provided
\* no row was removed from the store.  (No action of the model removes a row
\* from the store, so the proviso holds on every behaviour; the formula is the
\* claim's consequence for visible records.)
C36_VisibleRecordsStay == [][RecordsStay]_vars

-----------------------------------------------------------------------------
(* Command texts sent as replies while a session is pending                *)

\* what arrives: the administrator's quick-add and reload commands, sent as
\* replies and on their own
ReplyCommandMsgs ==
    {msg \in TextMsgs : msg.from = "a1" /\ msg.text \in {TextAdd, TextReload}}

MaxReplyCommandEvents == 1   \* inbound events: one command text of the administrator
MaxReplyCommandTicks == 1

DispatchReplyCommand == Dispatch(ReplyCommandMsgs, MaxReplyCommandEvents, MaxReplyCommandTicks)

NextReplyCommand ==
    \/ DispatchReplyCommand
    \/ AppendServer
    \/ AppendResume
    \/ FetchServer
    \/ LoadResume

SpecReplyCommand == InitPending /\ [][NextReplyCommand]_vars

\* C37: a single inbound message causes at most one append to the store,
\* whatever its text and whatever session is pending, including a command
\* text such as '/add id|title|author|ref' sent by an administrator as a
\* reply while a session is pending.  (Every append is caused by an inbound
\* message, so the store never holds more appended rows than messages have
\* arrived.)
C37_OneAppendPerMessage ==
    Len(rows) - Len(InitialRows) <= nEvents

-----------------------------------------------------------------------------
(* Events of an ordinary user beside the administrator's reply             *)

\* what arrives while the administrator's session is pending: the
\* administrator's reply with metadata; an ordinary user's uploads with and
\* without caption, reply with metadata, and every command
SenderMsgs ==
    {msg \in TextMsgs : msg.from = "a1" /\ msg.reply /\ msg.text = MetaFull}
    \cup {msg \in TextMsgs : msg.from = "u1" /\ msg.reply /\ msg.text = MetaFull}
    \cup {msg \in TextMsgs : msg.from = "u1" /\ ~msg.reply /\ msg.text \in CommandTexts}
    \cup {DocMsg("u1", <<"g">>, "application/pdf", c) : c \in {<<>>, MetaFull}}

MaxSenderEvents == 2   \* inbound events of the two senders
MaxSenderTicks == 1

DispatchSender == Dispatch(SenderMsgs, MaxSenderEvents, MaxSenderTicks)

DispatchSenderPress == DispatchCallback(MaxSenderEvents)

NextSender ==
    \/ DispatchSender
    \/ DispatchSenderPress
    \/ AppendServer
    \/ AppendResume
    \/ FetchServer
    \/ LoadResume
    \/ ReplyUserResume
    \/ NotifyResume
    \/ SendFoundResume
    \/ SendDocResume
    \/ ReplyFailResume
    \/ EditResume
    \/ AuthorResume

SpecSender == InitPending /\ [][NextSender]_vars

\* the identities of the roster
Roster == {ADMIN_IDS[i] : i \in 1..Len(ADMIN_IDS)}

\* the runs started by the step for an event whose sender is not in the
\* roster: a message, a command or a press of a button
OutsiderDispatched ==
    {t \in finished' \cup tasks' :
        nEvents' = nEvents + 1 /\ t.ev = nEvents' /\ t.msg.from \notin Roster}

\* the runs of such events that go on in the step
OutsiderResumed == {t \in tasks \ tasks' : t.msg.from \notin Roster}

\* the event of an outsider starts no append and no reload and leaves every
\* session as it is
OutsiderStartsNothing ==
    OutsiderDispatched # {} =>
        /\ waitingForMeta' = waitingForMeta
        /\ rows' = rows /\ books' = books /\ fuse' = fuse
        /\ \A t \in OutsiderDispatched :
              t.pc \notin {"append", "fetch"} /\ t.nAppend = 0 /\ t.nReload = 0

\* and the steps that complete it do not either
OutsiderChangesNothing ==
    \A t \in OutsiderResumed :
        /\ t.pc \notin {"append", "fetch"}
        /\ waitingForMeta' = waitingForMeta
        /\ rows' = rows /\ books' = books /\ fuse' = fuse
        /\ \A t2 \in (tasks' \ tasks) \cup finished' :
              t2.ev = t.ev => t2.pc \notin {"append", "fetch"} /\ t2.nAppend = 0 /\ t2.nReload = 0

\* C38: only administrator identities can change the catalog or the intake
\* sessions: for every event whose sender is not in the roster (an upload
\* with or without caption, a reply text, any command, any callback) no
\* session is created, overwritten or deleted and no store append or reload
\* is performed.
C38_OutsidersChangeNothing ==
    [][OutsiderStartsNothing /\ OutsiderChangesNothing]_vars

\* an ordinary user's '/add' with a new reference has been refused while the
\* administrator's session is pending: the store, the list and the session
\* are what they were at the start
C38_Witness ==
    \E d \in finished :
        /\ d.msg.from = "u1" /\ d.h = "add" /\ d.msg.text = TextAdd
        /\ d.reply = "onlyAdmin"
        /\ rows = InitialRows
        /\ Len(books) = 1
        /\ waitingForMeta["a1"] # Absent /\ waitingForMeta["u1"] = Absent

-----------------------------------------------------------------------------
\* the job started by event e is waiting for a call or for its timer
JobRunning(e) == \E t \in tasks : t.h = "validateJob" /\ t.ev = e

\* the jobs that ended in the latest step
JobsEnded == {d \in finished : d.h = "validateJob"}

\* every started job ends
JobsTerminate == \A e \in 1..MaxValidateEvents : JobRunning(e) ~> ~JobRunning(e)

\* the three outcomes: index.js:323, 330-331, 335
JobOutcomes == {"allValid", "report", "jobFailed"}

\* the job-failed message is the outcome only after a send of the job threw,
\* and the report only when some check failed
OutcomeFits(d) ==
    /\ d.reply = "jobFailed" => d.caught
    /\ d.reply = "allValid" => d.report = <<>> /\ ~d.caught
    /\ d.reply = "report" => d.report # <<>> /\ ~d.caught

\* the listener of /validate started by an administrator returns in the
\* step that starts the job
HandlerDoesNotWait ==
    \A t \in tasks' \ tasks :
        (t.h = "validateJob" /\ nEvents' = nEvents + 1) =>
            /\ t.ev = nEvents'
            /\ \E d \in finished' : d.h = "validate" /\ d.ev = t.ev /\ d.reply = "validationStarted"

=============================================================================
